---- MODULE Spec2Model ----
(***************************************************************************)
(* State-machine model of notebooklm_slide_refiner: the build_deck_flow    *)
(* orchestrator (render -> refine -> aggregate -> assemble), its refine    *)
(* task group with the concurrency semaphore and the TokenBucket rate      *)
(* limiter, and the append-only manifest.                                  *)
(***************************************************************************)
EXTENDS Integers, Sequences, FiniteSets, TLC

(***************************************************************************)
(* Bounds of the model.                                                    *)
(***************************************************************************)
\* Number of pages of the input PDF (doc.page_count).
MaxPages == 2
\* Largest value of the monotonic clock, in ticks since the bucket was built.
MaxNow == 2
\* Resolution of the float arithmetic: token units per whole token.
TokenUnit == 4
\* Resolution of the clock: ticks per second.
TicksPerSecond == 2
\* Largest value of the clock in the TokenBucket specification.
MaxClock == 5
\* Number of acquire() calls in the TokenBucket specification.
MaxAcquires == 5
\* Number of concurrent callers in the TokenBucket specification.
MaxCallers == 3
\* Number of consecutive runs on one output directory (resume specification).
MaxRuns == 2
\* Number of acquire() calls issued together in the burst specification.
BurstCallers == 5
\* Largest max_attempts passed to tasks.refine_page_task.
MaxAttempts == 3
\* The longest selector string, the largest page count and the longest
\* resolution string a call of utils.py is given.
MaxSelLen == 5
MaxTotal == 3
MaxResLen == 4
\* The largest width or height of an image or of a target resolution.
MaxDim == 4

(***************************************************************************)
(* Program constants.                                                      *)
(***************************************************************************)
\* refine_page_task: @task(retries=5)
RETRIES == 5
\* tasks.refine_page_task: @task(retries=1)
TASK_RETRIES == 1

Pages == 0 .. (MaxPages - 1)

Max(a, b) == IF a >= b THEN a ELSE b
Min(a, b) == IF a <= b THEN a ELSE b
\* ceil(a / b) for a >= 0, b > 0
CeilDiv(a, b) == (a + b - 1) \div b

\* Python None in a string-valued field, and in a path-valued field.
NoError == "None"
NoPath == <<"none", -1>>
\* JSON values: null and a string.
JsonNull == <<"null">>
JsonStr(x) == <<"str", x>>
\* Python truthiness of a str | None value.
Truthy(s) == s \notin {NoError, ""}
\* Python `a or b`.
PyOr(a, b) == IF Truthy(a) THEN a ELSE b

\* str(exc) of the exceptions the collaborators raise.
Errors == {"", "boom"}
\* int((time.monotonic() - start) * 1000) of a render / refine call.
RenderDurations == {3}
RefineDurations == {5}

\* raw_dir / f"page_{page_index + 1:04d}.png"
RawPath(p) == <<"raw", p + 1>>
\* enhanced_dir / f"page_{page_index + 1:04d}.png"
EnhancedPath(p) == <<"enhanced", p + 1>>

RECURSIVE SortedSeq(_)
\* sorted(S) of a finite set of integers.
SortedSeq(S) ==
    IF S = {} THEN <<>>
    ELSE LET m == CHOOSE x \in S : \A y \in S : x <= y
         IN <<m>> \o SortedSeq(S \ {m})

SeqToSet(s) == {s[k] : k \in 1 .. Len(s)}

IsPrefix(s, t) == Len(s) <= Len(t) /\ SubSeq(t, 1, Len(s)) = s

(***************************************************************************)
(* utils.parse_pages.  A selector is None or a sequence of parts; a part   *)
(* is <<n>> (a singleton "n") or <<a, b>> (a range "a-b").                 *)
(***************************************************************************)
NoSelector == <<"None">>

\* A parse_pages that accepts every page number.
PartNeverInvalid(part) == FALSE

PartInvalid(part) ==
    IF Len(part) = 2 THEN part[1] <= 0 \/ part[2] <= 0 ELSE part[1] <= 0

PartIndices(part) ==
    IF Len(part) = 2 THEN (part[1] - 1) .. (part[2] - 1) ELSE {part[1] - 1}

\* TRUE when parse_pages raises ValueError("Page numbers must be positive.")
ParsePagesRaises(selection, total_pages) ==
    /\ selection # NoSelector
    /\ \E k \in 1 .. Len(selection) : PartInvalid(selection[k])

\* A parse_pages that keeps the indices outside the document.
parse_pages_unfiltered(selection, total_pages) ==
    IF selection = NoSelector
    THEN SortedSeq(0 .. (total_pages - 1))
    ELSE SortedSeq(UNION {PartIndices(selection[k]) : k \in 1 .. Len(selection)})

\* The list parse_pages returns when it does not raise.
parse_pages(selection, total_pages) ==
    IF selection = NoSelector
    THEN SortedSeq(0 .. (total_pages - 1))
    ELSE LET indices == UNION {PartIndices(selection[k]) : k \in 1 .. Len(selection)}
             filtered == {idx \in indices : 0 <= idx /\ idx < total_pages}
         IN SortedSeq(filtered)

(***************************************************************************)
(* Python strings, as sequences of one-character strings, and the str and  *)
(* int operations that utils.py applies to them.                           *)
(***************************************************************************)
Digits == {"0", "1", "2", "3", "4", "5", "6", "7", "8", "9"}

DigitValue(c) ==
    CASE c = "0" -> 0 [] c = "1" -> 1 [] c = "2" -> 2 [] c = "3" -> 3 [] c = "4" -> 4
      [] c = "5" -> 5 [] c = "6" -> 6 [] c = "7" -> 7 [] c = "8" -> 8 [] c = "9" -> 9

\* str() of a digit value.
DigitChar(n) ==
    CASE n = 0 -> "0" [] n = 1 -> "1" [] n = 2 -> "2" [] n = 3 -> "3" [] n = 4 -> "4"
      [] n = 5 -> "5" [] n = 6 -> "6" [] n = 7 -> "7" [] n = 8 -> "8" [] n = 9 -> "9"

\* sep in s
Contains(s, sep) == \E k \in 1 .. Len(s) : s[k] = sep

\* s.find(sep), for a string that contains sep.
Find(s, sep) == CHOOSE i \in 1 .. Len(s) : s[i] = sep /\ \A j \in 1 .. (i - 1) : s[j] # sep

\* s.split(sep, maxsplit=1)
SplitFirst(s, sep) ==
    IF ~Contains(s, sep) THEN <<s>>
    ELSE <<SubSeq(s, 1, Find(s, sep) - 1), SubSeq(s, Find(s, sep) + 1, Len(s))>>

\* s.split(sep)
RECURSIVE Split(_, _)
Split(s, sep) ==
    IF ~Contains(s, sep) THEN <<s>>
    ELSE <<SubSeq(s, 1, Find(s, sep) - 1)>> \o Split(SubSeq(s, Find(s, sep) + 1, Len(s)), sep)

\* s.strip()
Strip(s) ==
    LET kept == {k \in 1 .. Len(s) : s[k] # " "}
    IN IF kept = {} THEN <<>>
       ELSE SubSeq(s, CHOOSE a \in kept : \A k \in kept : a <= k,
                      CHOOSE b \in kept : \A k \in kept : b >= k)

\* s.lower(): "X" is the one upper-case letter of the strings drawn.
Lower(s) == [k \in 1 .. Len(s) |-> IF s[k] = "X" THEN "x" ELSE s[k]]

\* The value of a non-empty string of decimal digits.
RECURSIVE DigitsValue(_)
DigitsValue(d) ==
    IF d = <<>> THEN 0
    ELSE 10 * DigitsValue(SubSeq(d, 1, Len(d) - 1)) + DigitValue(d[Len(d)])

AllDigits(d) == d # <<>> /\ \A k \in 1 .. Len(d) : d[k] \in Digits

\* int(s): surrounding whitespace is dropped, one sign may precede the
\* digits, anything else raises ValueError.
PyIntRaises(s) ==
    LET t == Strip(s)
    IN IF t # <<>> /\ t[1] \in {"-", "+"} THEN ~AllDigits(Tail(t)) ELSE ~AllDigits(t)

PyInt(s) ==
    LET t == Strip(s)
    IN IF t[1] = "-" THEN 0 - DigitsValue(Tail(t))
       ELSE IF t[1] = "+" THEN DigitsValue(Tail(t))
       ELSE DigitsValue(t)

\* The parts the loop of parse_pages visits: stripped, empty ones skipped.
StrippedParts(selection) ==
    LET pieces == Split(selection, ",")
    IN SelectSeq([k \in 1 .. Len(pieces) |-> Strip(pieces[k])], LAMBDA part : part # <<>>)

\* TRUE when an int() of the part raises ValueError.
PartMalformed(part) ==
    IF Contains(part, "-")
    THEN PyIntRaises(SplitFirst(part, "-")[1]) \/ PyIntRaises(SplitFirst(part, "-")[2])
    ELSE PyIntRaises(part)

\* The integers read from a part that is not malformed.
PartNumbers(part) ==
    IF Contains(part, "-")
    THEN <<PyInt(SplitFirst(part, "-")[1]), PyInt(SplitFirst(part, "-")[2])>>
    ELSE <<PyInt(part)>>

\* parse_pages on a selector string: the exception raised, if any, and the
\* list returned.  The loop stops at the first part that raises; every
\* exception it can raise is a ValueError.
ParsePagesString(selection, total_pages) ==
    IF selection = NoSelector \/ selection = <<>>
    THEN [raised |-> NoError, out |-> parse_pages(NoSelector, total_pages)]
    ELSE LET parts == StrippedParts(selection)
         IN IF \E k \in 1 .. Len(parts) :
                   /\ \A j \in 1 .. (k - 1) : ~PartMalformed(parts[j])
                   /\ PartMalformed(parts[k])
                        \/ PartInvalid(PartNumbers(parts[k]))
            THEN [raised |-> "ValueError", out |-> <<>>]
            ELSE [raised |-> NoError,
                  out |-> parse_pages([k \in 1 .. Len(parts) |-> PartNumbers(parts[k])],
                                      total_pages)]

\* A parse_resolution without the check of the signs.
ParseResolutionUnchecked(value) ==
    IF ~Contains(value, "x") THEN [raised |-> "ValueError", out |-> <<>>]
    ELSE LET width_str == SplitFirst(Lower(value), "x")[1]
             height_str == SplitFirst(Lower(value), "x")[2]
         IN IF PyIntRaises(width_str) \/ PyIntRaises(height_str)
            THEN [raised |-> "ValueError", out |-> <<>>]
            ELSE [raised |-> NoError, out |-> <<PyInt(width_str), PyInt(height_str)>>]

\* utils.parse_resolution: the exception raised, if any, and the
\* Resolution returned, as <<width, height>>.
ParseResolutionString(value) ==
    IF ~Contains(value, "x") THEN [raised |-> "ValueError", out |-> <<>>]
    ELSE LET width_str == SplitFirst(Lower(value), "x")[1]
             height_str == SplitFirst(Lower(value), "x")[2]
         IN IF PyIntRaises(width_str) \/ PyIntRaises(height_str)
            THEN [raised |-> "ValueError", out |-> <<>>]
            ELSE IF PyInt(width_str) <= 0 \/ PyInt(height_str) <= 0
            THEN [raised |-> "ValueError", out |-> <<>>]
            ELSE [raised |-> NoError, out |-> <<PyInt(width_str), PyInt(height_str)>>]

\* utils.letterbox_image on an image of size width x height.  The ratios
\* are compared and the scaled side is truncated exactly: for the sizes
\* drawn here the floating-point quotients of the code truncate to the same
\* integers.
LetterboxGeometry(width, height, target_w, target_h) ==
    LET wider == width * target_h > target_w * height
        new_w == IF wider THEN target_w ELSE (target_h * width) \div height
        new_h == IF wider THEN (target_w * height) \div width ELSE target_h
    IN [new_w |-> new_w, new_h |-> new_h,
        offset_x |-> (target_w - new_w) \div 2,
        offset_y |-> (target_h - new_h) \div 2,
        size |-> <<target_w, target_h>>]


(***************************************************************************)
(* State.                                                                  *)
(***************************************************************************)
VARIABLES
    \* The output directory, which outlives a run.
    raw_files,        \* page indices whose pages/raw/page_NNNN.png exists
    enhanced_files,   \* page indices whose pages/enhanced/page_NNNN.png exists
    manifest,         \* the lines of manifest.jsonl, oldest first
    \* One run of build_deck_flow.
    phase,            \* position of the flow
    cfg,              \* the arguments of the run and its environment
    page_indices,
    render_outcomes,
    render_failures,
    failures,
    refine_outcomes,
    image_paths,
    result,           \* how the flow ended: "none", "returned" or the exception
    outcome,          \* the FlowOutcome returned
    cursor,           \* pages aggregated so far by the aggregation loop
    \* The refine stage.
    task,             \* the refine_one task of each page
    semaphore,        \* free slots of anyio.Semaphore
    channel,          \* buffer of the memory object stream
    bucket,           \* the TokenBucket rate_limiter
    now,              \* time.monotonic(), in ticks
    cancelling,       \* the task group's cancel scope was cancelled
    \* History of the collaborators' calls and of earlier runs.
    render_calls,     \* pages handed to render_page_task in this run
    assembled,        \* image lists handed to assemble_ppt_task in this run
    run,              \* number of runs started on this output directory
    manifest_base,    \* Len(manifest) when the run started
    prev,             \* summary of the previous run
    \* Standalone callers of TokenBucket.acquire (TokenBucket specification).
    callers,
    returned,         \* the times at which their acquire() calls returned
    \* One call of tasks.refine_page_task (the configurable path).
    rp,
    \* One call of a function of utils.py: its name, arguments and result.
    call,
    \* The rate-limit file of refine.rate_limit_wait and its advisory lock.
    ratefile

dir_vars == <<raw_files, enhanced_files, manifest>>
flow_vars == <<phase, cfg, page_indices, render_outcomes, render_failures, failures,
               refine_outcomes, image_paths, result, outcome, cursor>>
stage_vars == <<task, semaphore, channel, bucket, now, cancelling>>
hist_vars == <<render_calls, assembled, run, manifest_base, prev>>
caller_vars == <<callers, returned>>
retry_vars == <<rp>>
util_vars == <<call>>
limiter_vars == <<ratefile>>
side_vars == <<caller_vars, retry_vars, util_vars, limiter_vars>>
vars == <<dir_vars, flow_vars, stage_vars, hist_vars, caller_vars, retry_vars, util_vars,
          limiter_vars>>

(***************************************************************************)
(* TokenBucket (flows.py).  Tokens are counted in units of 1/TokenUnit     *)
(* token, time in ticks of 1/TicksPerSecond second, and a rate r is in     *)
(* units per tick, i.e. r * TicksPerSecond / TokenUnit tokens per second.  *)
(***************************************************************************)
NoOwner == -1

\* TokenBucket.__init__
NewBucket(rate, t) ==
    [rate |-> rate,
     capacity |-> Max(TokenUnit, rate * TicksPerSecond),
     tokens |-> Max(TokenUnit, rate * TicksPerSecond),
     updated_at |-> t,
     lock |-> NoOwner]

\* A guard that lets a negative rate through.
DisabledZeroOnly(b) == b.rate = 0

\* acquire(): if self.rate <= 0: return
Disabled(b) == b.rate <= 0

\* A refill that forgets self.updated_at = now.
RefillNoStamp(b, t) ==
    [b EXCEPT !.tokens = Min(b.capacity, b.tokens + (t - b.updated_at) * b.rate)]

\* acquire(): the refill at the head of the locked section
Refill(b, t) ==
    [b EXCEPT !.tokens = Min(b.capacity, b.tokens + (t - b.updated_at) * b.rate),
              !.updated_at = t]

\* acquire(): if self.tokens >= 1
HasToken(b) == b.tokens >= TokenUnit

\* A return that leaves the tokens as they are.
ConsumeNone(b) == b

\* acquire(): self.tokens -= 1
Consume(b) == [b EXCEPT !.tokens = @ - TokenUnit]

\* A wait of no time: the caller polls the bucket again at once.
WaitTicksNone(b) == 0

\* acquire(): wait_time = (1 - self.tokens) / self.rate, rounded up to a tick
WaitTicks(b) == CeilDiv(TokenUnit - b.tokens, b.rate)

\* The locked section of acquire() run by `who` at time t: the bucket after it
\* (lock released on leaving `async with`).
LockedSection(b, t) ==
    LET r == Refill(b, t)
    IN [(IF HasToken(r) THEN Consume(r) ELSE r) EXCEPT !.lock = NoOwner]

\* Whether the locked section run at time t returns from acquire().
LockedSectionReturns(b, t) == HasToken(Refill(b, t))

\* The time at which the caller retries when the locked section did not return.
WakeTime(b, t) == t + WaitTicks(Refill(b, t))

(***************************************************************************)
(* Values of a run.                                                        *)
(***************************************************************************)
NoTask == [pc |-> "none", wake |-> 0, attempts |-> 0, last |-> "none", all5xx |-> TRUE,
           sem_held |-> FALSE, sem_taken |-> 0, rl_returned |-> FALSE, tok |-> 0]

NoOutcome == [failures |-> <<>>, pptx_path |-> NoPath]
DeckPath == <<"deck", 0>>
NoPrev == [complete |-> FALSE, pages |-> {}]
\* The rate-limit file before any call: it does not exist.
NoFile == [exists |-> FALSE, content |-> <<>>, lock |-> NoOwner, rps |-> 0]
\* No function of utils.py is being called.
NoUtil == [fn |-> "none"]
\* tasks.refine_page_task has not been called.
NoCall == [pc |-> "idle", max_attempts |-> 0, runs |-> 0, attempt |-> 0, calls |-> 0,
           waits |-> 0, log |-> <<>>]
EmptyFailures == [q \in {} |-> ""]

RenderOutcome(p, status, d) == [page_index |-> p, raw_path |-> RawPath(p),
                                duration_ms |-> d, status |-> status]

RefineOutcome(p, enh, out, d, status, err) ==
    [page_index |-> p, enhanced_path |-> enh, output_path |-> out,
     duration_ms |-> d, status |-> status, error |-> err]

ManifestEntry(p, raw, enh, status, d, err) ==
    [page_index |-> p, raw_path |-> raw, enhanced_path |-> enh,
     status |-> status, duration_ms |-> d, error |-> err]

\* The arguments of a run: the selectors None, "2", "2-1" and "0".
Selectors == {NoSelector, <<<<2>>>>, <<<<2, 1>>>>, <<<<0>>>>}
Concurrencies == {-1, 0, 2}
\* rps, in units per tick: no limit, and one token per second
FlowRates == {0, 2}

Configs ==
    [input_exists : BOOLEAN, pages : Selectors, skip_refine : BOOLEAN,
     concurrency : Concurrencies, rps : FlowRates, allow_partial : BOOLEAN,
     env_ok : BOOLEAN]

NoConfig == [input_exists |-> FALSE, pages |-> NoSelector, skip_refine |-> FALSE,
             concurrency |-> 0, rps |-> 0, allow_partial |-> FALSE, env_ok |-> FALSE]

IdleStage ==
    /\ task = [p \in Pages |-> NoTask]
    /\ semaphore = 0
    /\ channel = <<>>
    /\ bucket = NewBucket(0, 0)
    /\ now = 0
    /\ cancelling = FALSE

IdleFlow ==
    /\ phase = "idle"
    /\ cfg = NoConfig
    /\ page_indices = <<>>
    /\ render_outcomes = <<>>
    /\ render_failures = EmptyFailures
    /\ failures = <<>>
    /\ refine_outcomes = <<>>
    /\ image_paths = <<>>
    /\ result = "none"
    /\ outcome = NoOutcome
    /\ cursor = 0

IdleCallers ==
    /\ callers = <<>>
    /\ returned = <<>>

\* The state before a run.
Idle ==
    /\ IdleFlow
    /\ IdleStage
    /\ render_calls = <<>>
    /\ assembled = <<>>
    /\ run = 0
    /\ manifest_base = Len(manifest)
    /\ prev = NoPrev
    /\ IdleCallers
    /\ rp = NoCall
    /\ call = NoUtil
    /\ ratefile = NoFile

\* A line an earlier run left in manifest.jsonl.
OldLine == [page_index |-> 0, raw_path |-> JsonStr(RawPath(0)),
            enhanced_path |-> JsonNull, status |-> "skip_refine", duration_ms |-> 0,
            error |-> JsonNull]

\* An output directory as earlier runs can leave it: raw and enhanced images
\* of some pages (an enhanced image was made from a raw one), and the manifest
\* line of a render-only run of page 1 when its raw image is there.
Init ==
    /\ raw_files \in SUBSET Pages
    /\ enhanced_files \in SUBSET raw_files
    /\ manifest = IF 0 \in raw_files THEN <<OldLine>> ELSE <<>>
    /\ Idle

\* A fresh output directory, before the first run.
InitFresh ==
    /\ raw_files = {}
    /\ enhanced_files = {}
    /\ manifest = <<>>
    /\ Idle


(***************************************************************************)
(* build_deck_flow: start of a run, up to the selection of the pages.      *)
(***************************************************************************)
ResetRun ==
    /\ render_outcomes' = <<>>
    /\ render_failures' = EmptyFailures
    /\ failures' = <<>>
    /\ refine_outcomes' = <<>>
    /\ image_paths' = <<>>
    /\ outcome' = NoOutcome
    /\ cursor' = 0
    /\ task' = [p \in Pages |-> NoTask]
    /\ semaphore' = 0
    /\ channel' = <<>>
    /\ bucket' = NewBucket(0, 0)
    /\ now' = 0
    /\ cancelling' = FALSE
    /\ render_calls' = <<>>
    /\ assembled' = <<>>

\* A start that does not look for the input document.
StartErrorNoInputCheck(c) ==
    IF ParsePagesRaises(c.pages, MaxPages) THEN "ValueError"
    ELSE IF parse_pages(c.pages, MaxPages) = <<>> THEN "ValueError"
    ELSE "none"

\* The exception raised before any page is processed, or "none".
StartError(c) ==
    IF ~c.input_exists THEN "FileNotFoundError"
    ELSE IF ParsePagesRaises(c.pages, MaxPages) THEN "ValueError"
    ELSE IF parse_pages(c.pages, MaxPages) = <<>> THEN "ValueError"
    ELSE "none"

StartRun(c, limit) ==
    /\ phase \in {"idle", "done"}
    /\ run < limit
    /\ run' = run + 1
    /\ cfg' = c
    /\ manifest_base' = Len(manifest)
    /\ prev' = IF phase = "idle" THEN NoPrev
               ELSE [complete |-> /\ result = "returned"
                                  /\ \A k \in 1 .. Len(refine_outcomes) :
                                        refine_outcomes[k].status \in {"refined", "skipped_refine"}
                                  /\ Len(refine_outcomes) = Len(page_indices),
                     pages |-> SeqToSet(page_indices)]
    /\ ResetRun
    /\ IF StartError(c) # "none"
       THEN /\ result' = StartError(c)
            /\ phase' = "done"
            /\ page_indices' = <<>>
       ELSE /\ result' = "none"
            /\ phase' = "render"
            /\ page_indices' = parse_pages(c.pages, MaxPages)
    /\ UNCHANGED <<dir_vars, side_vars>>

(***************************************************************************)
(* Render stage: the sequential loop over page_indices.                    *)
(***************************************************************************)
RenderNext == page_indices[Len(render_outcomes) + 1]

\* raw_path.exists()
RawExists(p) == p \in raw_files

\* An existence check on the zero-based file name page_{page_index:04d}.png.
EnhancedExistsZeroBased(p) == (p - 1) \in enhanced_files

\* enhanced_path.exists()
EnhancedExists(p) == p \in enhanced_files

\* A render loop that stops at the first page that failed.
AfterRenderAbort(outcomes) ==
    IF Len(outcomes) = Len(page_indices) \/ outcomes[Len(outcomes)].status = "failed"
    THEN "setup" ELSE "render"

\* The render loop goes on until every selected page has its outcome.
AfterRender(outcomes) ==
    IF Len(outcomes) = Len(page_indices) THEN "setup" ELSE "render"

\* raw_path.exists(): the page is not rendered again.
RenderSkip ==
    /\ phase = "render"
    /\ RawExists(RenderNext)
    /\ LET o == Append(render_outcomes, RenderOutcome(RenderNext, "skipped_render", 0))
       IN /\ render_outcomes' = o
          /\ phase' = AfterRender(o)
    /\ UNCHANGED <<dir_vars, cfg, page_indices, render_failures, failures, refine_outcomes,
                   image_paths, result, outcome, cursor, stage_vars, hist_vars, side_vars>>

\* render_page_task returns: the raw PNG is on disk.
RenderOk(d) ==
    /\ phase = "render"
    /\ ~RawExists(RenderNext)
    /\ LET o == Append(render_outcomes, RenderOutcome(RenderNext, "rendered", d))
       IN /\ render_outcomes' = o
          /\ phase' = AfterRender(o)
    /\ raw_files' = raw_files \cup {RenderNext}
    /\ render_calls' = Append(render_calls, RenderNext)
    /\ UNCHANGED <<enhanced_files, manifest, cfg, page_indices, render_failures, failures,
                   refine_outcomes, image_paths, result, outcome, cursor, stage_vars,
                   assembled, run, manifest_base, prev, side_vars>>

\* render_page_task raises: except Exception as exc.
RenderFail(e) ==
    /\ phase = "render"
    /\ ~RawExists(RenderNext)
    /\ LET o == Append(render_outcomes, RenderOutcome(RenderNext, "failed", 0))
       IN /\ render_outcomes' = o
          /\ phase' = AfterRender(o)
    /\ render_failures' = [q \in DOMAIN render_failures \cup {RenderNext} |->
                              IF q = RenderNext THEN e ELSE render_failures[q]]
    /\ render_calls' = Append(render_calls, RenderNext)
    /\ UNCHANGED <<dir_vars, cfg, page_indices, failures, refine_outcomes, image_paths,
                   result, outcome, cursor, stage_vars, assembled, run, manifest_base, prev,
                   side_vars>>

(***************************************************************************)
(* Between the stages: failures, then skip_refine or the task group.       *)
(***************************************************************************)
\* failures = [idx for idx in render_failures]: the keys in insertion order.
\* A failure list that starts empty, without the pages whose render failed.
RenderFailureKeysNone == <<>>

RenderFailureKeys ==
    LET failed(o) == o.page_index \in DOMAIN render_failures
        f == SelectSeq(render_outcomes, failed)
    IN [k \in 1 .. Len(f) |-> f[k].page_index]

\* The skip_refine branch: one RefineOutcome per render outcome.
\* A render-only stage that reuses an enhanced file when there is one.
SkipRefineOutcomeReuse(o) ==
    IF o.page_index \in DOMAIN render_failures
    THEN RefineOutcome(o.page_index, NoPath, o.raw_path, 0, "failed",
                       render_failures[o.page_index])
    ELSE IF EnhancedExists(o.page_index)
    THEN RefineOutcome(o.page_index, EnhancedPath(o.page_index),
                       EnhancedPath(o.page_index), 0, "skipped_refine", NoError)
    ELSE RefineOutcome(o.page_index, NoPath, o.raw_path, 0, "skip_refine", NoError)

SkipRefineOutcome(o) ==
    IF o.page_index \in DOMAIN render_failures
    THEN RefineOutcome(o.page_index, NoPath, o.raw_path, 0, "failed",
                       render_failures[o.page_index])
    ELSE RefineOutcome(o.page_index, NoPath, o.raw_path, 0, "skip_refine", NoError)

SkipRefine ==
    /\ phase = "setup"
    /\ cfg.skip_refine
    /\ failures' = RenderFailureKeys
    /\ refine_outcomes' = [k \in 1 .. Len(render_outcomes) |->
                              SkipRefineOutcome(render_outcomes[k])]
    /\ phase' = "aggregate"
    /\ UNCHANGED <<dir_vars, cfg, page_indices, render_outcomes, render_failures,
                   image_paths, result, outcome, cursor, stage_vars, hist_vars, side_vars>>

\* build_vertex_config() or load_prompt() raises: the flow ends with it.
SetupFails ==
    /\ phase = "setup"
    /\ ~cfg.skip_refine
    /\ ~cfg.env_ok
    /\ failures' = RenderFailureKeys
    /\ result' = "RuntimeError"
    /\ phase' = "done"
    /\ UNCHANGED <<dir_vars, cfg, page_indices, render_outcomes, render_failures,
                   refine_outcomes, image_paths, outcome, cursor, stage_vars, hist_vars,
                   side_vars>>

\* A semaphore sized like the channel, by len(page_indices).
SemaphoreSlotsPerPage(concurrency) == Len(page_indices)

\* anyio.Semaphore(max(concurrency, 1))
SemaphoreSlots(concurrency) == Max(concurrency, 1)

\* A task group that starts a task for every render outcome.
SpawnedAll(p) == \E k \in 1 .. Len(render_outcomes) : render_outcomes[k].page_index = p

\* The pages the task group starts a refine_one task for.
Spawned(p) ==
    /\ \E k \in 1 .. Len(render_outcomes) : render_outcomes[k].page_index = p
    /\ p \notin DOMAIN render_failures

\* The semaphore, the rate limiter, the channel, and tg.start_soon per page.
StartRefine ==
    /\ phase = "setup"
    /\ ~cfg.skip_refine
    /\ cfg.env_ok
    /\ failures' = RenderFailureKeys
    /\ semaphore' = SemaphoreSlots(cfg.concurrency)
    /\ bucket' = NewBucket(cfg.rps, 0)
    /\ now' = 0
    /\ channel' = <<>>
    /\ task' = [p \in Pages |-> IF Spawned(p) THEN [NoTask EXCEPT !.pc = "spawned"]
                                ELSE NoTask]
    /\ phase' = "refine"
    /\ UNCHANGED <<dir_vars, cfg, page_indices, render_outcomes, render_failures,
                   refine_outcomes, image_paths, result, outcome, cursor, cancelling, hist_vars,
                   side_vars>>


(***************************************************************************)
(* Refine stage: the refine_one tasks.  The event loop runs one task at a  *)
(* time and switches only at a checkpoint; refine_page_task is a           *)
(* synchronous call, so no other task runs while one is inside it.         *)
(***************************************************************************)
Busy == \E q \in Pages : task[q].pc = "call"

flow_rest == <<cfg, page_indices, render_outcomes, render_failures, failures,
               refine_outcomes, image_paths, result, outcome, cursor>>

\* await send_channel.send(outcome): the buffer holds len(page_indices) items.
\* A task that sends its outcome twice.
SendTwice(ch, o) == Append(Append(ch, o), o)

\* A channel with room for one outcome, whatever the number of pages.
ChannelCapacityOne == IF page_indices = <<>> THEN 0 ELSE 1

\* anyio.create_memory_object_stream(len(page_indices)): the buffer size.  A
\* send on a full buffer waits for the receiver, which the flow starts only
\* after the task group.
ChannelCapacity == Len(page_indices)

Send(ch, o) == Append(ch, o)

\* async with semaphore: __aenter__
SemTake(t) == [t EXCEPT !.sem_held = TRUE, !.sem_taken = @ + 1]

\* refine_one up to its first checkpoint: the idempotent skip, or the semaphore.
TaskBegin(p) ==
    /\ phase = "refine"
    /\ ~Busy
    /\ ~cancelling
    /\ task[p].pc = "spawned"
    /\ IF EnhancedExists(p) /\ Len(channel) < ChannelCapacity
       THEN /\ channel' = Send(channel, RefineOutcome(p, EnhancedPath(p), EnhancedPath(p),
                                                       0, "skipped_refine", NoError))
            /\ task' = [task EXCEPT ![p].pc = "done"]
            /\ UNCHANGED semaphore
       ELSE IF EnhancedExists(p)
       THEN /\ task' = [task EXCEPT ![p].pc = "send_wait"]
            /\ UNCHANGED <<semaphore, channel>>
       ELSE IF semaphore > 0
       THEN /\ semaphore' = semaphore - 1
            /\ task' = [task EXCEPT ![p] = [SemTake(@) EXCEPT !.pc = "rl_start"]]
            /\ UNCHANGED channel
       ELSE /\ task' = [task EXCEPT ![p].pc = "sem_wait"]
            /\ UNCHANGED <<semaphore, channel>>
    /\ UNCHANGED <<dir_vars, phase, flow_rest, bucket, now, cancelling, hist_vars,
                   side_vars>>

\* A task waiting for the semaphore gets a slot.
SemAcquire(p) ==
    /\ phase = "refine"
    /\ ~Busy
    /\ ~cancelling
    /\ task[p].pc = "sem_wait"
    /\ semaphore > 0
    /\ semaphore' = semaphore - 1
    /\ task' = [task EXCEPT ![p] = [SemTake(@) EXCEPT !.pc = "rl_start"]]
    /\ UNCHANGED <<dir_vars, phase, flow_rest, channel, bucket, now, cancelling,
                   hist_vars, side_vars>>

\* rate_limiter.acquire() with rate <= 0: returns at once, no checkpoint.
RateLimiterOff(p) ==
    /\ phase = "refine"
    /\ ~Busy
    /\ task[p].pc = "rl_start"
    /\ Disabled(bucket)
    /\ task' = [task EXCEPT ![p].pc = "call", ![p].rl_returned = TRUE]
    /\ UNCHANGED <<dir_vars, phase, flow_rest, semaphore, channel, bucket, now,
                   cancelling, hist_vars, side_vars>>

\* rate_limiter.acquire(): async with self._lock, first or after a sleep.
LockAcquire(p) ==
    /\ phase = "refine"
    /\ ~Busy
    /\ ~cancelling
    /\ task[p].pc \in {"rl_start", "rl_lock"}
    /\ ~Disabled(bucket)
    /\ IF bucket.lock = NoOwner
       THEN /\ bucket' = [bucket EXCEPT !.lock = p]
            /\ task' = [task EXCEPT ![p].pc = "rl_cs"]
       ELSE /\ task[p].pc = "rl_start"
            /\ task' = [task EXCEPT ![p].pc = "rl_lock"]
            /\ UNCHANGED bucket
    /\ UNCHANGED <<dir_vars, phase, flow_rest, semaphore, channel, now, cancelling,
                   hist_vars, side_vars>>

\* rate_limiter.acquire(): the locked section; a token, or the time to retry.
BucketSection(p) ==
    /\ phase = "refine"
    /\ ~Busy
    /\ task[p].pc = "rl_cs"
    /\ bucket.lock = p
    /\ bucket' = LockedSection(bucket, now)
    /\ IF LockedSectionReturns(bucket, now)
       THEN task' = [task EXCEPT ![p].pc = "call", ![p].rl_returned = TRUE,
                                 ![p].tok = @ + 1]
       ELSE task' = [task EXCEPT ![p].pc = "rl_sleep", ![p].wake = WakeTime(bucket, now)]
    /\ UNCHANGED <<dir_vars, phase, flow_rest, semaphore, channel, now, cancelling,
                   hist_vars, side_vars>>

\* await anyio.sleep(wait_time) is over.
Wake(p) ==
    /\ phase = "refine"
    /\ ~Busy
    /\ ~cancelling
    /\ task[p].pc = "rl_sleep"
    /\ now >= task[p].wake
    /\ task' = [task EXCEPT ![p].pc = "rl_lock", ![p].wake = 0]
    /\ UNCHANGED <<dir_vars, phase, flow_rest, semaphore, channel, bucket, now,
                   cancelling, hist_vars, side_vars>>

\* What one run of refine_with_vertex does: "ok", or the raised error.
AttemptResults ==
    {[kind |-> "ok", msg |-> NoError],
     [kind |-> "retryable", msg |-> "boom"],
     [kind |-> "fatal", msg |-> ""]}

\* A task that is never run again.
NoRetries(attempts) == FALSE

\* Prefect runs the task again while its run count is within `retries`.
RetriesLeft(attempts) == attempts <= RETRIES

\* async with semaphore: __aexit__, for the task
SemRelease(t) == [t EXCEPT !.sem_held = FALSE]

\* async with semaphore: __aexit__ after the block ended or raised an Exception
SlotsAfterBlock(slots) == slots + 1

\* The end of refine_one after the `async with semaphore` block: the slot is
\* back, and the outcome is sent unless the task was cancelled meanwhile.
TaskEnd(p, t, o) ==
    /\ semaphore' = SlotsAfterBlock(semaphore)
    /\ IF cancelling
       THEN /\ task' = [task EXCEPT ![p] = [SemRelease(t) EXCEPT !.pc = "cancelled"]]
            /\ UNCHANGED channel
       ELSE IF Len(channel) < ChannelCapacity
       THEN /\ task' = [task EXCEPT ![p] = [SemRelease(t) EXCEPT !.pc = "done"]]
            /\ channel' = Send(channel, o)
       ELSE /\ task' = [task EXCEPT ![p] = [SemRelease(t) EXCEPT !.pc = "send_wait"]]
            /\ UNCHANGED channel

\* One run of refine_page_task's body inside the synchronous call.
RefineAttempt(p, r, d) ==
    /\ phase = "refine"
    /\ task[p].pc = "call"
    /\ LET n == task[p].attempts + 1
           t == [task[p] EXCEPT !.attempts = n, !.last = r.kind,
                                !.all5xx = @ /\ r.kind # "fatal"]
       IN IF r.kind = "ok"
          THEN /\ enhanced_files' = enhanced_files \cup {p}
               /\ TaskEnd(p, t, RefineOutcome(p, EnhancedPath(p), EnhancedPath(p), d,
                                              "refined", NoError))
          ELSE IF RetriesLeft(n)
          THEN /\ task' = [task EXCEPT ![p] = t]
               /\ UNCHANGED <<enhanced_files, semaphore, channel>>
          ELSE /\ TaskEnd(p, t, RefineOutcome(p, NoPath, RawPath(p), d, "failed", r.msg))
               /\ UNCHANGED enhanced_files
    /\ UNCHANGED <<raw_files, manifest, phase, flow_rest, bucket, now, cancelling,
                   hist_vars, side_vars>>

\* The task group's cancel scope is cancelled (an interrupt of the run).
Interrupt ==
    /\ phase = "refine"
    /\ ~cancelling
    /\ cancelling' = TRUE
    /\ UNCHANGED <<dir_vars, phase, flow_rest, task, semaphore, channel, bucket, now,
                   hist_vars, side_vars>>

\* A release that is skipped when the block is left by a cancellation.
SlotsAfterCancelLeak(t, slots) == slots

\* async with semaphore: __aexit__ when the block is left by a cancellation
SlotsAfterCancel(t, slots) == IF t.sem_held THEN slots + 1 ELSE slots

\* A cancelled task leaves at its checkpoint; `async with` gives the slot back.
TaskCancelled(p) ==
    /\ phase = "refine"
    /\ ~Busy
    /\ cancelling
    /\ \/ task[p].pc \in {"spawned", "sem_wait", "rl_lock", "rl_sleep", "send_wait"}
       \/ task[p].pc = "rl_start" /\ ~Disabled(bucket)
    /\ semaphore' = SlotsAfterCancel(task[p], semaphore)
    /\ task' = [task EXCEPT ![p] = [SemRelease(@) EXCEPT !.pc = "cancelled", !.wake = 0]]
    /\ UNCHANGED <<dir_vars, phase, flow_rest, channel, bucket, now, cancelling,
                   hist_vars, side_vars>>

\* time.monotonic() advances while the bucket is in use (a bucket with
\* rate <= 0 never reads the clock).
Tick ==
    /\ phase = "refine" \/ callers # <<>>
    /\ ~Disabled(bucket)
    /\ now < (IF callers # <<>> THEN MaxClock ELSE MaxNow)
    /\ now' = now + 1
    /\ UNCHANGED <<dir_vars, flow_vars, task, semaphore, channel, bucket, cancelling,
                   hist_vars, side_vars>>

\* for outcome in refine_outcomes: if outcome.status == "failed"
RefineFailureKeys(outcomes) ==
    LET failed(o) == o.status = "failed"
        f == SelectSeq(outcomes, failed)
    IN [k \in 1 .. Len(f) |-> f[k].page_index]

\* A task group that is left as soon as one task has ended.
TasksSomeResolved == \E p \in Pages : task[p].pc \in {"done", "cancelled"}

\* async with anyio.create_task_group(): left when every task has ended.
TasksResolved == \A p \in Pages : task[p].pc \in {"none", "done", "cancelled"}

\* The task group is left: the channel is closed and drained in send order.
\* The rate limiter and its clock are not used after this point.
GroupExit ==
    /\ phase = "refine"
    /\ TasksResolved
    /\ IF cancelling
       THEN /\ result' = "Cancelled"
            /\ phase' = "done"
            /\ UNCHANGED <<refine_outcomes, failures, channel>>
       ELSE /\ refine_outcomes' = channel
            /\ channel' = <<>>
            /\ failures' = failures \o RefineFailureKeys(channel)
            /\ phase' = "aggregate"
            /\ UNCHANGED result
    /\ bucket' = NewBucket(0, 0)
    /\ now' = 0
    /\ UNCHANGED <<dir_vars, cfg, page_indices, render_outcomes, render_failures,
                   image_paths, outcome, cursor, task, semaphore, cancelling,
                   hist_vars, side_vars>>


(***************************************************************************)
(* Aggregation, the manifest, assembly and the outcome.                    *)
(***************************************************************************)
\* ManifestEntry.to_json: the payload of the JSON line; None becomes null.
to_json(e) ==
    [page_index |-> e.page_index,
     raw_path |-> JsonStr(e.raw_path),
     enhanced_path |-> IF e.enhanced_path = NoPath THEN JsonNull
                       ELSE JsonStr(e.enhanced_path),
     status |-> e.status,
     duration_ms |-> e.duration_ms,
     error |-> IF e.error = NoError THEN JsonNull ELSE JsonStr(e.error)]

\* A writer that opens the file with "w": the earlier lines are lost.
ManifestRewrite(lines, entry) == <<to_json(entry)>>

\* ManifestWriter.append: open("a") and write one line.
ManifestAppend(lines, entry) == Append(lines, to_json(entry))

\* render_map[page_index]: the last outcome with that key.
RenderMapGet(p) ==
    LET ks == {k \in 1 .. Len(render_outcomes) : render_outcomes[k].page_index = p}
    IN render_outcomes[CHOOSE k \in ks : \A j \in ks : j <= k]

\* page_index in refine_map
RefineMapHas(p) == \E k \in 1 .. Len(refine_outcomes) : refine_outcomes[k].page_index = p

\* refine_map.get(page_index), or the outcome synthesised when it is missing.
RefineMapGet(p) ==
    IF RefineMapHas(p)
    THEN LET ks == {k \in 1 .. Len(refine_outcomes) : refine_outcomes[k].page_index = p}
         IN refine_outcomes[CHOOSE k \in ks : \A j \in ks : j <= k]
    ELSE RefineOutcome(p, NoPath, RenderMapGet(p).raw_path, 0, "failed",
                       IF p \in DOMAIN render_failures THEN render_failures[p]
                       ELSE "Unknown error")

\* render_failures.get(page_index)
RenderFailureGet(p) == IF p \in DOMAIN render_failures THEN render_failures[p] ELSE NoError

\* The ManifestEntry of a page, merged from its two outcomes.
MergedEntry(p) ==
    LET ro == RenderMapGet(p)
        fo == RefineMapGet(p)
    IN ManifestEntry(p, ro.raw_path, fo.enhanced_path, fo.status,
                     ro.duration_ms + fo.duration_ms,
                     PyOr(fo.error, RenderFailureGet(p)))

\* An aggregation loop that follows the order in which the outcomes arrived.
AggregateNextArrival ==
    IF cursor + 1 <= Len(refine_outcomes) THEN refine_outcomes[cursor + 1].page_index
    ELSE page_indices[cursor + 1]

\* The page the aggregation loop handles next.
AggregateNext == page_indices[cursor + 1]

\* One iteration of `for page_index in page_indices`.
Aggregate ==
    /\ phase = "aggregate"
    /\ cursor < Len(page_indices)
    /\ manifest' = ManifestAppend(manifest, MergedEntry(AggregateNext))
    /\ image_paths' = IF RefineMapGet(AggregateNext).status # "failed"
                      THEN Append(image_paths, RefineMapGet(AggregateNext).output_path)
                      ELSE image_paths
    /\ cursor' = cursor + 1
    /\ phase' = IF cursor + 1 = Len(page_indices) THEN "assemble" ELSE "aggregate"
    /\ UNCHANGED <<raw_files, enhanced_files, cfg, page_indices, render_outcomes,
                   render_failures, failures, refine_outcomes, result, outcome,
                   stage_vars, hist_vars, side_vars>>

\* A failure list that keeps the zero-based indices in the order recorded.
FailurePagesAsRecorded(f) == f

\* failure_pages = sorted({page + 1 for page in failures})
FailurePages(f) == SortedSeq({f[k] + 1 : k \in 1 .. Len(f)})

\* An assembly step without the gate.
AssemblyGateOpen(paths) == TRUE

\* if image_paths: the assembler is called
AssemblyGate(paths) == paths # <<>>

\* A return that withholds the deck when failures are not tolerated.
FlowReturnStrict(allow_partial, failure_pages, pptx_output) ==
    IF failure_pages # <<>> /\ ~allow_partial
    THEN [failures |-> failure_pages, pptx_path |-> NoPath]
    ELSE [failures |-> failure_pages, pptx_path |-> pptx_output]

\* The return statements at the end of build_deck_flow.
FlowReturn(allow_partial, failure_pages, pptx_output) ==
    IF failure_pages # <<>> /\ ~allow_partial
    THEN [failures |-> failure_pages, pptx_path |-> pptx_output]
    ELSE [failures |-> failure_pages, pptx_path |-> pptx_output]

\* The assembly gate and the FlowOutcome.
Finish ==
    /\ phase = "assemble"
    /\ IF AssemblyGate(image_paths)
       THEN /\ assembled' = Append(assembled, image_paths)
            /\ outcome' = FlowReturn(cfg.allow_partial, FailurePages(failures), DeckPath)
       ELSE /\ assembled' = assembled
            /\ outcome' = FlowReturn(cfg.allow_partial, FailurePages(failures), NoPath)
    /\ result' = "returned"
    /\ phase' = "done"
    /\ UNCHANGED <<dir_vars, cfg, page_indices, render_outcomes, render_failures,
                   failures, refine_outcomes, image_paths, cursor, stage_vars,
                   render_calls, run, manifest_base, prev, side_vars>>

(***************************************************************************)
(* Specification of the flow.                                              *)
(***************************************************************************)
FlowStep ==
    \/ \E d \in RenderDurations : RenderOk(d)
    \/ \E e \in Errors : RenderFail(e)
    \/ RenderSkip
    \/ SkipRefine
    \/ SetupFails
    \/ StartRefine
    \/ \E p \in Pages : TaskBegin(p)
    \/ \E p \in Pages : SemAcquire(p)
    \/ \E p \in Pages : RateLimiterOff(p)
    \/ \E p \in Pages : LockAcquire(p)
    \/ \E p \in Pages : BucketSection(p)
    \/ \E p \in Pages : Wake(p)
    \/ \E p \in Pages, r \in AttemptResults, d \in RefineDurations : RefineAttempt(p, r, d)
    \/ \E p \in Pages : TaskCancelled(p)
    \/ Interrupt
    \/ Tick
    \/ GroupExit
    \/ Aggregate
    \/ Finish

Next ==
    \/ \E c \in Configs : StartRun(c, 1)
    \/ FlowStep

Spec == Init /\ [][Next]_vars

(***************************************************************************)
(* The flow under a running event loop: anyio keeps running the tasks that *)
(* can run, timers expire, and every refiner call returns or raises, so a  *)
(* step of the flow is eventually taken while one is possible.  An         *)
(* interruption is never required to happen.                               *)
(***************************************************************************)
\* The clock reaches the wake-up time of a sleeping task, however late.
TickWake ==
    /\ phase = "refine"
    /\ now >= MaxNow
    /\ \E p \in Pages : task[p].pc = "rl_sleep" /\ task[p].wake > now
    /\ now' = now + 1
    /\ UNCHANGED <<dir_vars, flow_vars, task, semaphore, channel, bucket, cancelling,
                   hist_vars, side_vars>>

FlowProgress ==
    \/ \E p \in Pages : TaskBegin(p)
    \/ \E p \in Pages : SemAcquire(p)
    \/ \E p \in Pages : RateLimiterOff(p)
    \/ \E p \in Pages : LockAcquire(p)
    \/ \E p \in Pages : BucketSection(p)
    \/ \E p \in Pages : Wake(p)
    \/ \E p \in Pages, r \in AttemptResults, d \in RefineDurations : RefineAttempt(p, r, d)
    \/ \E p \in Pages : TaskCancelled(p)
    \/ Tick
    \/ TickWake
    \/ GroupExit

\* What a step of the refine stage changes.
progress_vars == <<phase, stage_vars>>

\* The runs on all the pages of the document.
WholeConfigs == {c \in Configs : c.pages = NoSelector}

NextWhole ==
    \/ \E c \in WholeConfigs : StartRun(c, 1)
    \/ FlowStep
    \/ TickWake

SpecFlowFair == Init /\ [][NextWhole]_vars /\ WF_progress_vars(FlowProgress)

(***************************************************************************)
(* Specification of consecutive runs on one, initially fresh, output       *)
(* directory: the pipeline is run on the whole document and run again.     *)
(***************************************************************************)
ResumeConfigs ==
    [input_exists : {TRUE}, pages : {NoSelector}, skip_refine : BOOLEAN,
     concurrency : {1}, rps : FlowRates, allow_partial : {FALSE}, env_ok : BOOLEAN]

NextResume ==
    \/ \E c \in ResumeConfigs : StartRun(c, MaxRuns)
    \/ FlowStep

SpecResume == InitFresh /\ [][NextResume]_vars

(***************************************************************************)
(* Specification of consecutive runs in which the write of the enhanced    *)
(* file can fail.  Each refiner ends with enhanced_path.write_bytes (the   *)
(* stub with shutil.copyfile), which creates the file and then writes the  *)
(* payload; an OSError of the write (a full disk, an I/O error) is raised  *)
(* after the file was created and nothing removes the file.                *)
(***************************************************************************)
\* The result of an attempt whose payload arrived and whose write failed.
WriteFailure == [kind |-> "write", msg |-> "boom"]

\* One call of the refiner by refine_page_task that raises in the write of
\* the enhanced file: the file exists, with part of the payload; Prefect
\* retries like after any other exception.
RefineWriteFails(p, d) ==
    /\ phase = "refine"
    /\ task[p].pc = "call"
    /\ enhanced_files' = enhanced_files \cup {p}
    /\ LET n == task[p].attempts + 1
           t == [task[p] EXCEPT !.attempts = n, !.last = WriteFailure.kind,
                                !.all5xx = FALSE]
       IN IF RetriesLeft(n)
          THEN /\ task' = [task EXCEPT ![p] = t]
               /\ UNCHANGED <<semaphore, channel>>
          ELSE TaskEnd(p, t, RefineOutcome(p, NoPath, RawPath(p), d, "failed",
                                          WriteFailure.msg))
    /\ UNCHANGED <<raw_files, manifest, phase, flow_rest, bucket, now, cancelling,
                   hist_vars, side_vars>>

NextWrite ==
    \/ \E c \in ResumeConfigs : StartRun(c, MaxRuns)
    \/ FlowStep
    \/ \E p \in Pages, d \in RefineDurations : RefineWriteFails(p, d)

SpecWrite == InitFresh /\ [][NextWrite]_vars


(***************************************************************************)
(* Specification of the TokenBucket alone: concurrent tasks that call      *)
(* acquire() on one bucket, each again and again.                          *)
(***************************************************************************)
\* rate, in units per tick: negative, zero, half a token, one token and two
\* tokens per second when TokenUnit = 4 and TicksPerSecond = 2.
BucketRates == {-1, 0, 1, 2, 4}

IdleCaller == [pc |-> "idle", wake |-> 0]

\* acquire() calls made so far.
Started == Len(returned) + Cardinality({i \in DOMAIN callers : callers[i].pc # "idle"})

InitBucket ==
    /\ raw_files = {}
    /\ enhanced_files = {}
    /\ manifest = <<>>
    /\ IdleFlow
    /\ task = [p \in Pages |-> NoTask]
    /\ semaphore = 0
    /\ channel = <<>>
    /\ \E rate \in BucketRates : bucket = NewBucket(rate, 0)
    /\ now = 0
    /\ cancelling = FALSE
    /\ render_calls = <<>>
    /\ assembled = <<>>
    /\ run = 0
    /\ manifest_base = 0
    /\ prev = NoPrev
    /\ \E n \in 1 .. MaxCallers : callers = [i \in 1 .. n |-> IdleCaller]
    /\ returned = <<>>
    /\ rp = NoCall
    /\ call = NoUtil
    /\ ratefile = NoFile

bucket_rest == <<dir_vars, flow_vars, task, semaphore, channel, cancelling, hist_vars,
                 retry_vars, util_vars, limiter_vars>>

\* acquire() with rate <= 0: returns at once.
CallerOff(i) ==
    /\ callers[i].pc = "idle"
    /\ Started < MaxAcquires
    /\ Disabled(bucket)
    /\ returned' = Append(returned, now)
    /\ UNCHANGED <<bucket_rest, bucket, now, callers>>

\* acquire() with rate > 0: the caller heads for the lock.
CallerEnter(i) ==
    /\ callers[i].pc = "idle"
    /\ Started < MaxAcquires
    /\ ~Disabled(bucket)
    /\ callers' = [callers EXCEPT ![i].pc = "lock"]
    /\ UNCHANGED <<bucket_rest, bucket, now, returned>>

\* async with self._lock
CallerLock(i) ==
    /\ callers[i].pc = "lock"
    /\ bucket.lock = NoOwner
    /\ bucket' = [bucket EXCEPT !.lock = i]
    /\ callers' = [callers EXCEPT ![i].pc = "cs"]
    /\ UNCHANGED <<bucket_rest, now, returned>>

\* The locked section: a token and the return, or the time to retry.
CallerSection(i) ==
    /\ callers[i].pc = "cs"
    /\ bucket.lock = i
    /\ bucket' = LockedSection(bucket, now)
    /\ IF LockedSectionReturns(bucket, now)
       THEN /\ callers' = [callers EXCEPT ![i].pc = "idle"]
            /\ returned' = Append(returned, now)
       ELSE /\ callers' = [callers EXCEPT ![i].pc = "sleep",
                                          ![i].wake = WakeTime(bucket, now)]
            /\ UNCHANGED returned
    /\ UNCHANGED <<bucket_rest, now>>

\* await anyio.sleep(wait_time) is over.
CallerWake(i) ==
    /\ callers[i].pc = "sleep"
    /\ now >= callers[i].wake
    /\ callers' = [callers EXCEPT ![i].pc = "lock", ![i].wake = 0]
    /\ UNCHANGED <<bucket_rest, bucket, now, returned>>

NextBucket ==
    \/ \E i \in DOMAIN callers : CallerOff(i)
    \/ \E i \in DOMAIN callers : CallerEnter(i)
    \/ \E i \in DOMAIN callers : CallerLock(i)
    \/ \E i \in DOMAIN callers : CallerSection(i)
    \/ \E i \in DOMAIN callers : CallerWake(i)
    \/ Tick

SpecBucket == InitBucket /\ [][NextBucket]_vars

(***************************************************************************)
(* Specification of a burst: BurstCallers tasks call acquire() together at *)
(* t = 0 on a bucket of two tokens per second and nothing else runs on the *)
(* event loop, so a task runs as soon as it can and the clock advances     *)
(* only while every task sleeps, up to the next wake-up.                   *)
(***************************************************************************)
\* Two tokens per second, in units per tick.
BurstRate == (2 * TokenUnit) \div TicksPerSecond

InitBurst ==
    /\ raw_files = {}
    /\ enhanced_files = {}
    /\ manifest = <<>>
    /\ IdleFlow
    /\ task = [p \in Pages |-> NoTask]
    /\ semaphore = 0
    /\ channel = <<>>
    /\ bucket = NewBucket(BurstRate, 0)
    /\ now = 0
    /\ cancelling = FALSE
    /\ render_calls = <<>>
    /\ assembled = <<>>
    /\ run = 0
    /\ manifest_base = 0
    /\ prev = NoPrev
    /\ callers = [i \in 1 .. BurstCallers |-> [pc |-> "lock", wake |-> 0]]
    /\ returned = <<>>
    /\ rp = NoCall
    /\ call = NoUtil
    /\ ratefile = NoFile

\* A caller the event loop can run now.
Runnable(c) == c.pc \in {"lock", "cs"} \/ (c.pc = "sleep" /\ now >= c.wake)

\* The event loop is idle until the next timer: the clock advances.
TickIdle ==
    /\ \E i \in DOMAIN callers : callers[i].pc = "sleep"
    /\ \A i \in DOMAIN callers : ~Runnable(callers[i])
    /\ now' = now + 1
    /\ UNCHANGED <<bucket_rest, bucket, callers, returned>>

NextBurst ==
    \/ \E i \in DOMAIN callers : CallerLock(i)
    \/ \E i \in DOMAIN callers : CallerSection(i)
    \/ \E i \in DOMAIN callers : CallerWake(i)
    \/ TickIdle

SpecBurst == InitBurst /\ [][NextBurst]_vars

(***************************************************************************)
(* The TokenBucket under a fair event loop.  anyio runs every task that    *)
(* can run, anyio.Lock hands the lock to its waiters in the order of their *)
(* arrival, and the clock reaches every timer: a caller in the locked      *)
(* section or past its wake-up time eventually takes its step, a caller    *)
(* waiting for the lock eventually gets it, and an event loop with nothing *)
(* to run but timers advances to the next one.                             *)
(***************************************************************************)
NextFair ==
    \/ NextBucket
    \/ TickIdle

FairLoop ==
    /\ \A i \in 1 .. MaxCallers :
          /\ WF_vars(i \in DOMAIN callers /\ CallerSection(i))
          /\ WF_vars(i \in DOMAIN callers /\ CallerWake(i))
          /\ SF_vars(i \in DOMAIN callers /\ CallerLock(i))
    /\ WF_vars(TickIdle)

SpecFair == InitBucket /\ [][NextFair]_vars /\ FairLoop


(***************************************************************************)
(* Specification of the configurable path: one call of                     *)
(* tasks.refine_page_task, a loop of max_attempts passes inside a Prefect  *)
(* task that is run again after it raised.                                 *)
(***************************************************************************)
\* refine.is_retryable
is_retryable(status_code) ==
    status_code = 429 \/ (500 <= status_code /\ status_code <= 599)

\* What one pass through the try block does: refiner.refine returns, raises
\* GeminiAPIError with the status of the response, or raises another
\* exception (a response without candidates, parts or inline data).
TryResults ==
    {[kind |-> "ok", status_code |-> 200], [kind |-> "Exception", status_code |-> 200]}
        \cup {[kind |-> "GeminiAPIError", status_code |-> sc] : sc \in {400, 429, 500, 599}}

MaxAttemptsValues == -1 .. MaxAttempts

tasks_rest == <<dir_vars, flow_vars, stage_vars, hist_vars, caller_vars, util_vars,
                limiter_vars>>

\* refine_page_task(..., max_attempts) is called: the first run starts.
RpCall(m) ==
    /\ rp.pc = "idle"
    /\ rp' = [NoCall EXCEPT !.pc = "loop", !.max_attempts = m, !.runs = 1]
    /\ UNCHANGED tasks_rest

\* except ...: continue after the backoff when the failure may be retried.
RetriedInLoop(c, r) ==
    /\ c.attempt < c.max_attempts - 1
    /\ r.kind = "GeminiAPIError" => is_retryable(r.status_code)

\* One pass of `for attempt in range(max_attempts)`: rate_limit_wait, then
\* refiner.refine; a raise out of the task makes Prefect run it again while
\* its retries last.
RpAttempt(r) ==
    /\ rp.pc = "loop"
    /\ rp.attempt < rp.max_attempts
    /\ LET c == [rp EXCEPT !.waits = @ + 1, !.calls = @ + 1, !.log = Append(@, r)]
       IN rp' = IF r.kind = "ok" THEN [c EXCEPT !.pc = "returned"]
                ELSE IF RetriedInLoop(c, r) THEN [c EXCEPT !.attempt = @ + 1]
                ELSE IF c.runs <= TASK_RETRIES
                     THEN [c EXCEPT !.runs = @ + 1, !.attempt = 0]
                ELSE [c EXCEPT !.pc = "raised"]
    /\ UNCHANGED tasks_rest

\* The loop ends without a return or a raise: return enhanced_path, duration_ms.
RpLoopEnd ==
    /\ rp.pc = "loop"
    /\ rp.attempt >= rp.max_attempts
    /\ rp' = [rp EXCEPT !.pc = "returned"]
    /\ UNCHANGED tasks_rest

NextTasks ==
    \/ \E m \in MaxAttemptsValues : RpCall(m)
    \/ \E r \in TryResults : RpAttempt(r)
    \/ RpLoopEnd

SpecTasks == InitFresh /\ [][NextTasks]_vars

(***************************************************************************)
(* The functions of utils.py, each called on its own with arguments drawn  *)
(* from bounded sets.                                                      *)
(***************************************************************************)
util_rest == <<dir_vars, flow_vars, stage_vars, hist_vars, caller_vars, retry_vars,
               limiter_vars>>

Strings(alphabet, n) == UNION {[1 .. k -> alphabet] : k \in 0 .. n}

SelectorStrings == {NoSelector} \cup Strings({"0", "1", "2", "-", ",", " "}, MaxSelLen)

ResolutionStrings == Strings({"0", "1", "2", "x", "X", "-", " "}, MaxResLen)

Dims == 1 .. MaxDim

ParsePagesCall ==
    /\ call = NoUtil
    /\ \E selection \in SelectorStrings, total_pages \in 0 .. MaxTotal :
           call' = [fn |-> "parse_pages", selection |-> selection,
                    total_pages |-> total_pages,
                    raised |-> ParsePagesString(selection, total_pages).raised,
                    out |-> ParsePagesString(selection, total_pages).out]
    /\ UNCHANGED util_rest

ParseResolutionCall ==
    /\ call = NoUtil
    /\ \E value \in ResolutionStrings :
           call' = [fn |-> "parse_resolution", value |-> value,
                    raised |-> ParseResolutionString(value).raised,
                    out |-> ParseResolutionString(value).out]
    /\ UNCHANGED util_rest

LetterboxCall ==
    /\ call = NoUtil
    /\ \E width, height, target_w, target_h \in Dims :
           call' = [fn |-> "letterbox_image", image |-> <<width, height>>,
                    resolution |-> <<target_w, target_h>>,
                    geometry |-> LetterboxGeometry(width, height, target_w, target_h)]
    /\ UNCHANGED util_rest

UtilReturn ==
    /\ call # NoUtil
    /\ call' = NoUtil
    /\ UNCHANGED util_rest

NextUtil ==
    \/ ParsePagesCall
    \/ ParseResolutionCall
    \/ LetterboxCall
    \/ UtilReturn

SpecUtil == InitFresh /\ [][NextUtil]_vars

(***************************************************************************)
(* refine.rate_limit_wait: processes that share one rate-limit file.  The  *)
(* file holds str(time.monotonic()) of the last call; the clock is the one *)
(* monotonic clock of the machine, in ticks, and rps is in requests per    *)
(* second.  A call that does not sleep, or has slept, writes its stamp,    *)
(* unlocks and returns in one step.                                        *)
(***************************************************************************)
LimiterRates == {-1, 0, 1, 2}

\* str(time.monotonic())
RECURSIVE StampString(_)
StampString(n) ==
    IF n < 10 THEN <<DigitChar(n)>>
    ELSE StampString(n \div 10) \o <<DigitChar(n % 10)>>

\* content = handle.read().strip(); last = float(content) if content else 0.0
ReadStamp(content) ==
    IF Strip(content) = <<>> THEN 0 ELSE DigitsValue(Strip(content))

\* wait = interval - (now - last), in ticks, rounded up to a tick
LimiterWait(f, t) ==
    CeilDiv(TicksPerSecond - f.rps * (t - ReadStamp(f.content)), f.rps)

\* A process without fcntl: no lock is taken (the ImportError branch).
FlockIgnored(f) == TRUE

\* fcntl.flock(handle, fcntl.LOCK_EX) can return: no other open file holds
\* the lock.
FlockFree(f) == f.lock = NoOwner

InitLimiter ==
    /\ raw_files = {}
    /\ enhanced_files = {}
    /\ manifest = <<>>
    /\ IdleFlow
    /\ task = [p \in Pages |-> NoTask]
    /\ semaphore = 0
    /\ channel = <<>>
    /\ bucket = NewBucket(0, 0)
    /\ now \in 0 .. MaxNow
    /\ cancelling = FALSE
    /\ render_calls = <<>>
    /\ assembled = <<>>
    /\ run = 0
    /\ manifest_base = 0
    /\ prev = NoPrev
    /\ \E n \in 1 .. MaxCallers : callers = [i \in 1 .. n |-> IdleCaller]
    /\ returned = <<>>
    /\ rp = NoCall
    /\ call = NoUtil
    /\ \E rps \in LimiterRates : ratefile = [NoFile EXCEPT !.rps = rps]

limiter_rest == <<dir_vars, flow_vars, task, semaphore, channel, bucket, cancelling,
                  hist_vars, retry_vars, util_vars>>

\* rate_limit_wait with rps <= 0: returns at once.
LimiterOff(i) ==
    /\ callers[i].pc = "idle"
    /\ Started < MaxAcquires
    /\ ratefile.rps <= 0
    /\ returned' = Append(returned, now)
    /\ UNCHANGED <<limiter_rest, now, callers, ratefile>>

\* rate_limit_path.touch(exist_ok=True); rate_limit_path.open("r+")
LimiterOpen(i) ==
    /\ callers[i].pc = "idle"
    /\ Started < MaxAcquires
    /\ ratefile.rps > 0
    /\ ratefile' = [ratefile EXCEPT !.exists = TRUE]
    /\ callers' = [callers EXCEPT ![i].pc = "lock"]
    /\ UNCHANGED <<limiter_rest, now, returned>>

\* fcntl.flock(handle, fcntl.LOCK_EX)
LimiterLock(i) ==
    /\ callers[i].pc = "lock"
    /\ FlockFree(ratefile)
    /\ ratefile' = [ratefile EXCEPT !.lock = i]
    /\ callers' = [callers EXCEPT ![i].pc = "cs"]
    /\ UNCHANGED <<limiter_rest, now, returned>>

\* The stamp is written, the lock released and the call returns.
LimiterWrite(i) ==
    /\ ratefile' = [ratefile EXCEPT !.content = StampString(now), !.lock = NoOwner]
    /\ callers' = [callers EXCEPT ![i].pc = "idle", ![i].wake = 0]
    /\ returned' = Append(returned, now)

\* The read of the stamp and the wait computed from it: the call sleeps, or
\* goes on to the write.
LimiterRead(i) ==
    /\ callers[i].pc = "cs"
    /\ IF LimiterWait(ratefile, now) > 0
       THEN /\ callers' = [callers EXCEPT ![i].pc = "sleep",
                                          ![i].wake = now + LimiterWait(ratefile, now)]
            /\ UNCHANGED <<ratefile, returned>>
       ELSE LimiterWrite(i)
    /\ UNCHANGED <<limiter_rest, now>>

\* time.sleep(wait) is over.
LimiterWake(i) ==
    /\ callers[i].pc = "sleep"
    /\ now >= callers[i].wake
    /\ LimiterWrite(i)
    /\ UNCHANGED <<limiter_rest, now>>

LimiterTick ==
    /\ ratefile.rps > 0
    /\ now < MaxClock
    /\ now' = now + 1
    /\ UNCHANGED <<limiter_rest, callers, returned, ratefile>>

NextLimiter ==
    \/ \E i \in DOMAIN callers : LimiterOff(i)
    \/ \E i \in DOMAIN callers : LimiterOpen(i)
    \/ \E i \in DOMAIN callers : LimiterLock(i)
    \/ \E i \in DOMAIN callers : LimiterRead(i)
    \/ \E i \in DOMAIN callers : LimiterWake(i)
    \/ LimiterTick

SpecLimiter == InitLimiter /\ [][NextLimiter]_vars

(***************************************************************************)
(* Properties.                                                             *)
(***************************************************************************)
\* The manifest lines written by the current run.
RunLines == SubSeq(manifest, manifest_base + 1, Len(manifest))

\* The page indices of a list of image paths, and of manifest lines.
PathPages(paths) == [k \in 1 .. Len(paths) |-> paths[k][2] - 1]
LinePages(lines) == [k \in 1 .. Len(lines) |-> lines[k].page_index]

StrictlyAscending(seq) ==
    \A i, j \in 1 .. Len(seq) : i < j => seq[i] < seq[j]

\* The selected pages whose refine outcome is not "failed".
NonFailedPages ==
    {p \in SeqToSet(page_indices) :
        \E k \in 1 .. Len(refine_outcomes) :
            /\ refine_outcomes[k].page_index = p
            /\ refine_outcomes[k].status # "failed"}

\* The refine stage of the run was entered (the task group was started).
RefineStageRan ==
    /\ ~cfg.skip_refine
    /\ \/ phase \in {"refine", "aggregate", "assemble"}
       \/ phase = "done" /\ result \in {"returned", "Cancelled"}

\* C1: whatever the order in which the refine tasks complete, the image list
\* handed to the assembler is strictly ascending in page index and holds one
\* path per selected page that did not fail.
C1_AssembledInPageOrder ==
    /\ StrictlyAscending(PathPages(image_paths))
    /\ \A k \in 1 .. Len(assembled) :
          /\ StrictlyAscending(PathPages(assembled[k]))
          /\ SeqToSet(PathPages(assembled[k])) = NonFailedPages
          /\ Len(assembled[k]) = Cardinality(NonFailedPages)

\* C1 witness: two pages were assembled although page 2's task sent first.
C1_Witness ==
    /\ Len(assembled) = 1
    /\ Len(assembled[1]) = 2
    /\ Len(refine_outcomes) = 2
    /\ refine_outcomes[1].page_index > refine_outcomes[2].page_index
    /\ refine_outcomes[1].status = "refined"

\* C2: a run writes at most one manifest line per selected page, in ascending
\* page order, none before every selected page has a render outcome and every
\* refine task has ended, and exactly one per selected page when it returns.
C2_OneLinePerPage ==
    /\ StrictlyAscending(LinePages(RunLines))
    /\ SeqToSet(LinePages(RunLines)) \subseteq SeqToSet(page_indices)
    /\ RunLines # <<>> =>
          /\ Len(render_outcomes) = Len(page_indices)
          /\ \A p \in Pages : task[p].pc \in {"none", "done"}
          /\ \A p \in SeqToSet(page_indices) :
                \/ p \in DOMAIN render_failures
                \/ \E k \in 1 .. Len(refine_outcomes) : refine_outcomes[k].page_index = p
    /\ result = "returned" => LinePages(RunLines) = page_indices

\* C2 witness: a run with a refine stage returned after writing two lines.
C2_Witness ==
    /\ result = "returned"
    /\ Len(RunLines) = 2
    /\ \E p \in Pages : task[p].attempts > 0

\* C3: a page whose render failed gets no refine task (no semaphore slot, no
\* token, no refiner call, no outcome on the channel), its paths are in no
\* image list, and once aggregated it has a manifest line with status failed
\* and a non-null error; with and without skip_refine.
C3_RenderFailureIsolated ==
    \A p \in DOMAIN render_failures :
        /\ task[p] = NoTask
        /\ \A k \in 1 .. Len(channel) : channel[k].page_index # p
        /\ ~cfg.skip_refine =>
              \A k \in 1 .. Len(refine_outcomes) : refine_outcomes[k].page_index # p
        /\ \A k \in 1 .. Len(image_paths) : image_paths[k][2] - 1 # p
        /\ \A a \in 1 .. Len(assembled) :
              \A k \in 1 .. Len(assembled[a]) : assembled[a][k][2] - 1 # p
        /\ \A k \in 1 .. Len(RunLines) :
              RunLines[k].page_index = p =>
                  RunLines[k].status = "failed" /\ RunLines[k].error # JsonNull
        /\ result = "returned" =>
              \E k \in 1 .. Len(RunLines) : RunLines[k].page_index = p

\* C3 witness: a run with a refine stage returned; the render of one page
\* failed with an empty message and the other page was refined.
C3_Witness ==
    /\ result = "returned"
    /\ ~cfg.skip_refine
    /\ \E p \in DOMAIN render_failures : render_failures[p] = ""
    /\ \E p \in Pages : task[p].pc = "done" /\ task[p].last = "ok"

\* Every line the run has written has status failed.
AllLinesFailed == \A k \in 1 .. Len(RunLines) : RunLines[k].status = "failed"

\* C4: the assembler is never called with an empty list, and a run in which
\* every selected page failed returns without calling it, with no output path.
C4_NoEmptyAssembly ==
    /\ \A k \in 1 .. Len(assembled) : assembled[k] # <<>>
    /\ (result = "returned" /\ AllLinesFailed) =>
          assembled = <<>> /\ outcome.pptx_path = NoPath

\* C4 witness: a run returned with both pages failed.
C4_Witness ==
    /\ result = "returned"
    /\ Len(RunLines) = 2
    /\ AllLinesFailed

\* C5 (as claimed): when aggregation leaves the image list empty, the run
\* ends in failure and does not return a normal outcome.
C5_EmptyListFails ==
    (phase = "done" /\ cursor > 0 /\ cursor = Len(page_indices) /\ image_paths = <<>>)
        => result # "returned"

\* The run resumes a complete one: the previous run returned with every page
\* of the document rendered and refined, and this run asks for refinement too.
Resumed == run > 1 /\ prev.complete /\ ~cfg.skip_refine

\* C6: a run that resumes a complete run calls neither the renderer nor the
\* refiner, resolves every page as skipped_render and skipped_refine, and
\* adds one manifest line per selected page.
C6_IdempotentResume ==
    Resumed =>
        /\ render_calls = <<>>
        /\ \A p \in Pages : task[p].attempts = 0
        /\ \A k \in 1 .. Len(render_outcomes) : render_outcomes[k].status = "skipped_render"
        /\ \A k \in 1 .. Len(RunLines) : RunLines[k].status = "skipped_refine"
        /\ result = "returned" =>
              /\ Len(RunLines) = Len(page_indices)
              /\ Len(manifest) = manifest_base + Len(page_indices)
              /\ manifest_base >= Len(page_indices)

\* C6 witness: the second run returned after a complete first run.
C6_Witness ==
    /\ Resumed
    /\ result = "returned"
    /\ Len(RunLines) = MaxPages

\* C7: every step leaves the earlier manifest lines in place, and a step of
\* the aggregation loop adds exactly one line at the end.
C7_AppendOnly ==
    [][/\ IsPrefix(manifest, manifest')
       /\ phase = "aggregate" => Len(manifest') = Len(manifest) + 1
       /\ phase # "aggregate" => manifest' = manifest]_vars

\* C7 witness: a second run has appended to the lines of the first.
C7_Witness ==
    /\ run > 1
    /\ manifest_base > 0
    /\ Len(manifest) > manifest_base

\* The refine tasks that hold a slot of the semaphore.
InFlight == {p \in Pages : task[p].sem_held}

\* C8: at most max(concurrency, 1) refine tasks hold the concurrency gate,
\* for every configured concurrency, zero and negative included.
C8_InFlightBounded ==
    /\ Cardinality(InFlight) <= Max(cfg.concurrency, 1)
    /\ semaphore >= 0

\* C8 witness: with a concurrency below one, a task waits for the slot that
\* another task holds.
C8_Witness ==
    /\ cfg.concurrency < 1
    /\ \E p, q \in Pages : task[p].sem_held /\ task[q].pc = "sem_wait"

\* C9: a task reaches the rate limiter only while it holds a slot and the
\* refiner only after the rate limiter returned; a task that sent an outcome
\* other than the idempotent skip went through all three; and when every
\* task has ended, however it ended, all slots are free again.
C9_GateOrderAndRelease ==
    /\ \A p \in Pages :
          /\ task[p].pc \in {"rl_start", "rl_lock", "rl_cs", "rl_sleep", "call"}
                => task[p].sem_held
          /\ task[p].sem_held => task[p].sem_taken = 1
          /\ (task[p].rl_returned \/ task[p].tok > 0 \/ task[p].wake > 0)
                => task[p].sem_taken = 1
          /\ (task[p].pc = "call" \/ task[p].attempts > 0) => task[p].rl_returned
          /\ task[p].pc \in {"none", "done", "cancelled"} => ~task[p].sem_held
    /\ \A k \in 1 .. Len(channel) :
          channel[k].status # "skipped_refine" =>
              LET t == task[channel[k].page_index]
              IN t.sem_taken = 1 /\ t.rl_returned /\ t.attempts > 0
    /\ (RefineStageRan /\ TasksResolved) => semaphore = Max(cfg.concurrency, 1)

\* C9 witness: every task has ended; one was cancelled while it held a slot
\* and waited for the rate limiter, another after its refiner call.
C9_Witness ==
    /\ phase = "refine"
    /\ TasksResolved
    /\ \E p, q \in Pages :
          /\ task[p].pc = "cancelled" /\ task[p].sem_taken = 1 /\ task[p].attempts = 0
          /\ task[q].pc = "cancelled" /\ task[q].attempts > 0

\* The callers inside the locked section.
InSection == {i \in DOMAIN callers : callers[i].pc = "cs"}

\* C10: with rate > 0, capacity is max(1, rate), the tokens stay within
\* 0 .. capacity, only the owner of the lock is in the locked section, every
\* return has taken one whole token out of what the bucket held and was
\* refilled, and so at most capacity + rate * T calls have returned by time T.
C10_BucketCapsRate ==
    bucket.rate > 0 =>
        /\ bucket.capacity = Max(TokenUnit, bucket.rate * TicksPerSecond)
        /\ 0 <= bucket.tokens /\ bucket.tokens <= bucket.capacity
        /\ bucket.updated_at <= now
        /\ InSection = (IF bucket.lock = NoOwner THEN {} ELSE {bucket.lock})
        /\ bucket.tokens + TokenUnit * Len(returned)
              <= bucket.capacity + bucket.rate * bucket.updated_at
        /\ TokenUnit * Len(returned) <= bucket.capacity + bucket.rate * now

\* C10 witness: three callers, and a call returned after its caller slept
\* because the bucket was empty.
C10_Witness ==
    /\ bucket.rate > 0
    /\ Len(callers) = 3
    /\ TokenUnit * Len(returned) > bucket.capacity
    /\ returned[Len(returned)] > 0
    /\ bucket.tokens < TokenUnit

\* C11: with a bucket of 2 tokens per second and the acquire() calls issued
\* together at t = 0, the first two calls return at t = 0 and every later
\* call returns at least half a second after the return before it.
C11_BurstSerialised ==
    (bucket.rate > 0 /\ bucket.rate * TicksPerSecond = 2 * TokenUnit) =>
        /\ \A k \in 1 .. Len(returned) : k <= 2 => returned[k] = 0
        /\ \A k \in 1 .. Len(returned) :
              k > 2 => 2 * (returned[k] - returned[k - 1]) >= TicksPerSecond
        /\ (Len(returned) < 2 /\ now = 0) =>
              \E i \in DOMAIN callers : callers[i].pc \in {"lock", "cs"}

\* C11 witness: all five calls have returned, the last three after a sleep.
C11_Witness ==
    /\ bucket.rate * TicksPerSecond = 2 * TokenUnit
    /\ Len(callers) = 5
    /\ Len(returned) = 5
    /\ returned[2] = 0
    /\ returned[3] > 0
    /\ returned[5] > returned[4]

\* C12 (as claimed): a refine failure that is not retryable is fatal; after
\* it no further refiner attempt is made for that page in the run.
C12_FatalNotRetried ==
    \A p \in Pages : task[p].last = "fatal" => task[p].pc # "call"

\* C13 (as claimed): in the concurrent path the refiner is attempted at most
\* 5 times for one page in one run.
C13_AttemptsBounded ==
    \A p \in Pages : task[p].attempts <= 5

\* C14 (as claimed): with a rate limit configured, every refiner attempt of a
\* page has consumed a rate-limiter token of its own, so a page never has
\* more attempts than tokens.
C14_TokenPerAttempt ==
    \A p \in Pages :
        (cfg.rps > 0 /\ phase = "refine") => task[p].attempts <= task[p].tok

\* C15 (as claimed): refine_page_task returns normally only if one of its
\* refiner invocations completed without error, whatever max_attempts is.
C15_SuccessNeedsRefine ==
    rp.pc = "returned" => \E k \in 1 .. Len(rp.log) : rp.log[k].kind = "ok"

\* The lines of the current run that belong to page p.
PageLines(p) == {k \in 1 .. Len(RunLines) : RunLines[k].page_index = p}

\* C16: a page whose refiner failed with a 5xx error once or twice is tried
\* again, and when a later attempt succeeds the page is refined: its outcome
\* has status refined and no error, and its single manifest line has the six
\* fields of any refined page, a null error and no trace of the failures.
C16_RetriedThenRefined ==
    \A p \in Pages :
        /\ (task[p].last = "retryable" /\ task[p].all5xx /\ task[p].attempts <= 2) =>
              /\ task[p].pc = "call"
              /\ \A k \in 1 .. Len(channel) : channel[k].page_index # p
        /\ (task[p].last = "ok" /\ task[p].pc = "done") =>
              /\ \A k \in 1 .. Len(channel) :
                    channel[k].page_index = p =>
                        channel[k].status = "refined" /\ channel[k].error = NoError
              /\ \A k \in 1 .. Len(refine_outcomes) :
                    refine_outcomes[k].page_index = p =>
                        /\ refine_outcomes[k].status = "refined"
                        /\ refine_outcomes[k].error = NoError
              /\ Cardinality(PageLines(p)) <= 1
              /\ \A k \in PageLines(p) :
                    /\ DOMAIN RunLines[k] = {"page_index", "raw_path", "enhanced_path",
                                             "status", "duration_ms", "error"}
                    /\ RunLines[k].status = "refined"
                    /\ RunLines[k].error = JsonNull
                    /\ RunLines[k].raw_path = JsonStr(RawPath(p))
                    /\ RunLines[k].enhanced_path = JsonStr(EnhancedPath(p))
                    /\ RunLines[k].duration_ms \in Nat
              /\ result = "returned" => Cardinality(PageLines(p)) = 1

\* C16 witness: the run returned, and a page whose refiner failed twice with
\* a 5xx error and succeeded at the third attempt has its manifest line.
C16_Witness ==
    /\ result = "returned"
    /\ \E p \in Pages :
          /\ task[p].attempts = 3
          /\ task[p].all5xx
          /\ task[p].last = "ok"
          /\ PageLines(p) # {}

\* C17: a failed page never ends the work on the others.  The render loop
\* handles every selected page, every page whose render did not fail gets
\* its refine task, a run ends without returning only for a reason that is
\* not a page failure, and a run that returns has one manifest line per
\* selected page, a refine outcome per page whose render did not fail, and
\* every page that did not fail in the assembled list.
C17_SiblingsUnaffected ==
    /\ phase \notin {"idle", "render"} => Len(render_outcomes) = Len(page_indices)
    /\ (phase = "refine" /\ ~cancelling) =>
          \A p \in SeqToSet(page_indices) :
              p \notin DOMAIN render_failures => task[p].pc # "none"
    /\ (phase = "done" /\ result # "returned") =>
          \/ result \in {"FileNotFoundError", "ValueError"} /\ render_calls = <<>>
          \/ result = "RuntimeError" /\ ~cfg.env_ok
          \/ result = "Cancelled" /\ cancelling
    /\ result = "returned" =>
          \A p \in SeqToSet(page_indices) :
              /\ Cardinality(PageLines(p)) = 1
              /\ \/ p \in DOMAIN render_failures
                 \/ \E k \in 1 .. Len(refine_outcomes) :
                       /\ refine_outcomes[k].page_index = p
                       /\ \/ refine_outcomes[k].status = "failed"
                          \/ /\ Len(assembled) = 1
                             /\ \E j \in 1 .. Len(assembled[1]) :
                                   assembled[1][j] = refine_outcomes[k].output_path

\* C17 witness: the run returned; the first page failed in the refine stage
\* and the second page was refined and assembled.
C17_Witness ==
    /\ result = "returned"
    /\ page_indices = <<0, 1>>
    /\ task[0].pc = "done" /\ task[0].last # "ok" /\ task[0].attempts > 0
    /\ task[1].last = "ok"
    /\ assembled = <<(<<EnhancedPath(1)>>)>>

\* The selector of the run has a part with a non-positive number, or selects
\* no page of the document.
BadSelection ==
    \/ /\ cfg.pages # NoSelector
       /\ \E k \in 1 .. Len(cfg.pages) : \E j \in 1 .. Len(cfg.pages[k]) : cfg.pages[k][j] <= 0
    \/ /\ cfg.pages # NoSelector
       /\ \A k \in 1 .. Len(cfg.pages) :
             \A n \in 1 .. MaxPages :
                 ~(cfg.pages[k][1] <= n /\ n <= cfg.pages[k][Len(cfg.pages[k])])

\* C18: a run whose input document is missing, whose selector is invalid or
\* whose selection is empty fails at once: it ends with the error, and no
\* renderer, refiner or assembler call and no manifest append is made.
C18_SelectionErrorsFirst ==
    (run > 0 /\ (~cfg.input_exists \/ BadSelection)) =>
        /\ phase = "done"
        /\ result = (IF ~cfg.input_exists THEN "FileNotFoundError" ELSE "ValueError")
        /\ render_calls = <<>>
        /\ render_outcomes = <<>>
        /\ \A p \in Pages : task[p] = NoTask
        /\ assembled = <<>>
        /\ Len(manifest) = manifest_base
        /\ outcome = NoOutcome

\* C18 witness: a run on a directory with a manifest failed on the selector
\* "2-1", which selects nothing.
C18_Witness ==
    /\ run > 0
    /\ cfg.input_exists
    /\ cfg.pages = <<(<<2, 1>>)>>
    /\ result = "ValueError"
    /\ manifest # <<>>

\* The one-based numbers of the pages whose line of this run has status failed.
FailedLinePages ==
    {RunLines[k].page_index + 1 : k \in {j \in 1 .. Len(RunLines) : RunLines[j].status = "failed"}}

\* C19: the failure list a run returns is strictly ascending and holds
\* exactly the one-based numbers of the selected pages whose manifest line
\* of the run has status failed.
C19_FailureListMatchesManifest ==
    result = "returned" =>
        /\ StrictlyAscending(outcome.failures)
        /\ SeqToSet(outcome.failures) = FailedLinePages
        /\ SeqToSet(outcome.failures) \subseteq {p + 1 : p \in SeqToSet(page_indices)}

\* C19 witness: the render of page 2 failed and then the refine of page 1,
\* so the failures were recorded out of page order.
C19_Witness ==
    /\ result = "returned"
    /\ failures = <<1, 0>>
    /\ outcome.failures = <<1, 2>>

MainCompiles == FALSE

\* The keywords main passes that build_deck_flow does not accept.
UnexpectedKeywords == {"extract_text", "use_text_files"}

\* The exit status of the process for the run: 1 after an uncaught error
\* (of the compilation, of the call, of the flow) or after sys.exit(1).
ExitCode ==
    IF ~MainCompiles THEN 1
    ELSE IF UnexpectedKeywords # {} THEN 1
    ELSE IF result # "returned" THEN 1
    ELSE IF outcome.failures # <<>> /\ ~cfg.allow_partial THEN 1
    ELSE 0

\* C21 (as claimed): the process exits non-zero exactly when the failure
\* list of the run is not empty and allow_partial is false.
C21_ExitCodeIffFailures ==
    result = "returned" =>
        ((ExitCode # 0) <=> (outcome.failures # <<>> /\ ~cfg.allow_partial))

(***************************************************************************)
(* The notation of selectors and resolutions, read without the parser:     *)
(* blanks may surround a number, a selector is a list of pieces between    *)
(* commas, a piece is a number n or a range a-b.                           *)
(***************************************************************************)
\* p without some of its leading and trailing blanks.
Cores(p) ==
    {SubSeq(p, ab[1], ab[2]) :
        ab \in {ab \in (1 .. Len(p)) \X (1 .. Len(p)) :
                  /\ ab[1] <= ab[2]
                  /\ \A k \in (1 .. (ab[1] - 1)) \cup ((ab[2] + 1) .. Len(p)) : p[k] = " "}}

\* The integers a string denotes: digits, after at most one sign.
SignedValues(c) ==
    IF AllDigits(c) THEN {DigitsValue(c)}
    ELSE IF c # <<>> /\ c[1] = "-" /\ AllDigits(Tail(c)) THEN {0 - DigitsValue(Tail(c))}
    ELSE {}

\* The strings between the commas of s.
Pieces(s) ==
    {SubSeq(s, ij[1], ij[2]) :
        ij \in {ij \in (1 .. (Len(s) + 1)) \X (0 .. Len(s)) :
                  /\ ij[2] >= ij[1] - 1
                  /\ ij[1] = 1 \/ s[ij[1] - 1] = ","
                  /\ ij[2] = Len(s) \/ s[ij[2] + 1] = ","
                  /\ \A k \in ij[1] .. ij[2] : s[k] # ","}}

\* The pairs <<a, b>> of page numbers a piece names: <<n, n>> for a number n,
\* <<a, b>> for a range a-b.
PieceBounds(p) ==
    UNION {{<<n, n>> : n \in SignedValues(c)} \cup
           UNION {{<<a, b>> : a \in SignedValues(SubSeq(c, 1, i - 1)),
                              b \in SignedValues(SubSeq(c, i + 1, Len(c)))}
                  : i \in {i \in 1 .. Len(c) : c[i] = "-"}}
           : c \in Cores(p)}

ValidSelector(s) ==
    /\ s # NoSelector
    /\ s # <<>>
    /\ \A p \in Pieces(s) : \E r \in PieceBounds(p) : r[1] >= 1 /\ r[2] >= 1

\* The one-based page numbers some piece of a valid selector covers.
CoveredPages(s) ==
    {n \in 1 .. MaxTotal :
        \E p \in Pieces(s) : \E r \in PieceBounds(p) :
            r[1] >= 1 /\ r[2] >= 1 /\ r[1] <= n /\ n <= r[2]}

\* C22: for a valid selector and any total, parse_pages returns the strictly
\* ascending sequence of exactly the zero-based indices below total that some
\* part covers; without a selector it returns 0 .. total - 1.
C22_ParsePagesSortedCovered ==
    call.fn = "parse_pages" =>
        /\ call.selection = NoSelector =>
               /\ call.raised = NoError
               /\ call.out = [k \in 1 .. call.total_pages |-> k - 1]
        /\ ValidSelector(call.selection) =>
               /\ call.raised = NoError
               /\ StrictlyAscending(call.out)
               /\ SeqToSet(call.out) =
                      {i \in 0 .. (call.total_pages - 1) : i + 1 \in CoveredPages(call.selection)}

\* parse_pages("2,1-2", 3) = [0, 1] and parse_pages("1-2", 1) = [0].
C22_Witness ==
    /\ call.fn = "parse_pages"
    /\ \/ /\ call.selection = <<"2", ",", "1", "-", "2">>
          /\ call.total_pages = 3
          /\ call.out = <<0, 1>>
       \/ /\ call.selection = <<"1", "-", "2">>
          /\ call.total_pages = 1
          /\ call.out = <<0>>

\* A selector has a non-positive page number when a piece names a number or
\* an end of a range that is zero or negative.
HasNonPositive(s) ==
    /\ s # NoSelector
    /\ \E p \in Pieces(s) : \E r \in PieceBounds(p) : r[1] <= 0 \/ r[2] <= 0

\* C23: parse_pages raises the selection error and returns nothing whenever
\* a number or an end of a range of the selector is zero or negative,
\* whatever the other parts and the total.
C23_NonPositiveRaises ==
    (call.fn = "parse_pages" /\ HasNonPositive(call.selection)) =>
        call.raised = "ValueError" /\ call.out = <<>>

\* parse_pages("1,0", 3) and parse_pages("1--2", 3) raise.
C23_Witness ==
    /\ call.fn = "parse_pages"
    /\ call.selection \in {<<"1", ",", "0">>, <<"1", "-", "-", "2">>}
    /\ call.total_pages = 3
    /\ call.raised = "ValueError"

\* The pairs <<W, H>> a string of the shape WxH denotes.
ResolutionShapes(s) ==
    UNION {{<<w, h>> : w \in UNION {SignedValues(c) : c \in Cores(SubSeq(s, 1, i - 1))},
                       h \in UNION {SignedValues(c) : c \in Cores(SubSeq(s, i + 1, Len(s)))}}
           : i \in {i \in 1 .. Len(s) : s[i] = "x"}}

\* C24: parse_resolution returns <<W, H>> for a string WxH exactly when W and
\* H are positive integers, and raises the resolution error on every other
\* string.
C24_ResolutionIffPositive ==
    call.fn = "parse_resolution" =>
        /\ call.raised = NoError <=>
               \E r \in ResolutionShapes(call.value) : r[1] > 0 /\ r[2] > 0
        /\ call.raised = NoError => call.out \in ResolutionShapes(call.value)
        /\ call.raised # NoError => call.raised = "ValueError" /\ call.out = <<>>

\* parse_resolution("2x1") returns 2 by 1.
C24_Witness ==
    /\ call.fn = "parse_resolution"
    /\ call.value = <<"2", "x", "1">>
    /\ call.out = <<2, 1>>

\* C25 (as claimed): the canvas has the target size, the scaled copy has at
\* least one pixel and at most the target on each axis, the offsets are not
\* negative, and the axis on which the source is relatively longer is filled.
C25_LetterboxWithinTarget ==
    call.fn = "letterbox_image" =>
        LET g == call.geometry
            target_w == call.resolution[1]
            target_h == call.resolution[2]
        IN /\ g.size = <<target_w, target_h>>
           /\ 1 <= g.new_w /\ g.new_w <= target_w
           /\ 1 <= g.new_h /\ g.new_h <= target_h
           /\ g.offset_x >= 0 /\ g.offset_y >= 0
           /\ call.image[1] * target_h > target_w * call.image[2] => g.new_w = target_w
           /\ call.image[1] * target_h < target_w * call.image[2] => g.new_h = target_h
           /\ g.new_w = target_w \/ g.new_h = target_h

\* C26 (as claimed): every line of the run with status failed carries an
\* error that is not null, whatever the message of the exception.
C26_FailedLinesCarryError ==
    \A k \in 1 .. Len(RunLines) :
        RunLines[k].status = "failed" => RunLines[k].error # JsonNull

\* The first of the refine error and the render error that is not None.
FirstNonNull(a, b) == IF a # NoError THEN a ELSE b

\* C30 (as claimed): the line of a page has the sum of the two durations,
\* the first non-null of the refine error and the render error, and the
\* refine status, or failed when the render failed.
C30_MergedFromBothOutcomes ==
    \A k \in 1 .. Len(RunLines) :
        LET line == RunLines[k]
            ro == RenderMapGet(line.page_index)
            fo == RefineMapGet(line.page_index)
            error == FirstNonNull(fo.error, RenderFailureGet(line.page_index))
        IN /\ line.duration_ms = ro.duration_ms + fo.duration_ms
           /\ line.error = IF error = NoError THEN JsonNull ELSE JsonStr(error)
           /\ line.status = IF ro.status = "failed" THEN "failed" ELSE fo.status

\* C27: with a rate of zero or less every acquire() returns in the step that
\* calls it: no caller is ever waiting for the lock, in the locked section or
\* asleep, the lock is never taken, and the tokens and the refill timestamp
\* stay as the constructor left them, with any number of callers.
C27_NonPositiveRateDisables ==
    bucket.rate <= 0 =>
        /\ \A i \in DOMAIN callers : callers[i] = IdleCaller
        /\ bucket.lock = NoOwner
        /\ bucket.tokens = bucket.capacity
        /\ bucket.capacity = TokenUnit
        /\ bucket.updated_at = 0

\* C27 witness: the largest number of callers made all the acquire() calls
\* on a bucket of negative rate.
C27_Witness ==
    /\ bucket.rate < 0
    /\ Len(callers) = MaxCallers
    /\ Len(returned) = MaxAcquires

\* C28: with a positive rate, a finite set of callers, a clock that advances
\* and a fair lock, every acquire() call eventually returns.
C28_EveryAcquireReturns ==
    \A i \in 1 .. MaxCallers :
        (i \in DOMAIN callers /\ bucket.rate > 0 /\ callers[i].pc # "idle")
            ~> (i \in DOMAIN callers /\ callers[i].pc = "idle")

\* C28 witness: the largest number of callers made all the acquire() calls
\* on a bucket of positive rate, the last one returned after the clock had
\* advanced past the first return, and no call is pending.
C28_Witness ==
    /\ bucket.rate > 0
    /\ Len(callers) = MaxCallers
    /\ Len(returned) = MaxAcquires
    /\ returned[MaxAcquires] > returned[1]
    /\ \A i \in DOMAIN callers : callers[i].pc = "idle"

\* The selected pages whose render did not fail, in page order.
RenderedPages == SelectSeq(page_indices, LAMBDA p : p \notin DOMAIN render_failures)

\* C29: in a render-only run the refine stage does not run: no refine task
\* exists, so the refiner is never invoked, no semaphore slot and no
\* rate-limiter token is taken and nothing is sent on the channel; every
\* page whose render did not fail gets an outcome and a manifest line with
\* status skip_refine and a null enhanced path, and the images assembled are
\* the raw paths of these pages, also when an enhanced file exists.
C29_SkipRefineUsesRaw ==
    (run > 0 /\ cfg.skip_refine) =>
        /\ \A p \in Pages : task[p] = NoTask
        /\ semaphore = 0
        /\ channel = <<>>
        /\ bucket = NewBucket(0, 0)
        /\ \A k \in 1 .. Len(refine_outcomes) :
              refine_outcomes[k].page_index \notin DOMAIN render_failures =>
                  /\ refine_outcomes[k].status = "skip_refine"
                  /\ refine_outcomes[k].enhanced_path = NoPath
                  /\ refine_outcomes[k].output_path = RawPath(refine_outcomes[k].page_index)
        /\ \A k \in 1 .. Len(RunLines) :
              RunLines[k].page_index \notin DOMAIN render_failures =>
                  /\ RunLines[k].status = "skip_refine"
                  /\ RunLines[k].enhanced_path = JsonNull
        /\ phase \in {"aggregate", "assemble"} \/ result = "returned" =>
              /\ Len(refine_outcomes) = Len(page_indices)
              /\ \A k \in 1 .. Len(page_indices) :
                    refine_outcomes[k].page_index = page_indices[k]
        /\ result = "returned" =>
              /\ Len(RunLines) = Len(page_indices)
              /\ image_paths = [k \in 1 .. Len(RenderedPages) |-> RawPath(RenderedPages[k])]
              /\ \A k \in 1 .. Len(assembled) : assembled[k] = image_paths

\* C29 witness: a render-only run returned with both pages assembled from
\* their raw paths although the first page has an enhanced file.
C29_Witness ==
    /\ cfg.skip_refine
    /\ result = "returned"
    /\ 0 \in enhanced_files
    /\ assembled = <<(<<RawPath(0), RawPath(1)>>)>>
    /\ \A k \in 1 .. Len(RunLines) : RunLines[k].status = "skip_refine"

\* The lines the runs before the current one appended to the manifest.
EarlierLines == SubSeq(manifest, 1, manifest_base)

\* C31 (as claimed): a refine attempt that fails leaves no file at the
\* enhanced path of its page, and a page whose refine failed in one run is
\* attempted again by the next run and never reported skipped_refine.
C31_FailedRefineLeavesNoFile ==
    /\ \A p \in Pages :
          (task[p].attempts > 0 /\ task[p].last # "ok") => ~EnhancedExists(p)
    /\ \A k \in 1 .. Len(EarlierLines) : \A j \in 1 .. Len(RunLines) :
          (/\ EarlierLines[k].page_index = RunLines[j].page_index
           /\ EarlierLines[k].status = "failed")
              => RunLines[j].status # "skipped_refine"

\* C32: the manifest changes only in the aggregation loop, when every render
\* is recorded, every refine task has ended and the channel is drained; each
\* change is the append of the one line of the next page by that loop; and a
\* run that ends before its aggregation (an error at the start or in the
\* setup of the refine stage, an interruption) leaves the manifest as it
\* found it.
C32_SingleAggregationPoint ==
    [][/\ manifest' # manifest =>
             /\ phase = "aggregate"
             /\ ~cancelling
             /\ Len(render_outcomes) = Len(page_indices)
             /\ \A p \in Pages : task[p].pc \in {"none", "done"}
             /\ channel = <<>>
             /\ Len(manifest) = manifest_base + cursor
             /\ Len(manifest') = Len(manifest) + 1
             /\ manifest'[Len(manifest')].page_index = page_indices[cursor + 1]
             /\ cursor' = cursor + 1
       /\ (phase' = "done" /\ result' # "returned") =>
             manifest' = manifest /\ Len(manifest') = manifest_base']_vars

\* C32 witness: the aggregation loop has appended the line of the first of
\* two pages after both refine tasks ended, one of them after a failure.
C32_Witness ==
    /\ phase = "aggregate"
    /\ cursor = 1
    /\ Len(manifest) = manifest_base + 1
    /\ \A p \in Pages : task[p].pc = "done" /\ task[p].attempts > 0
    /\ \E p \in Pages : task[p].last # "ok"

\* C33: once the aggregation loop has handled every selected page, each
\* selected page is in exactly one of the image list (its line has status
\* refined, skip_refine or skipped_refine) and the failure list (its line has
\* status failed): the two lists have no page in common, no page twice, and
\* together as many entries as there are selected pages; the outcome
\* returned reports the same failures, one-based.
C33_ImagesAndFailuresPartition ==
    (phase = "assemble" \/ result = "returned") =>
        LET images == SeqToSet(PathPages(image_paths))
            failed == SeqToSet(failures)
        IN /\ images \cap failed = {}
           /\ images \cup failed = SeqToSet(page_indices)
           /\ Cardinality(images) = Len(image_paths)
           /\ Cardinality(failed) = Len(failures)
           /\ Len(image_paths) + Len(failures) = Len(page_indices)
           /\ \A k \in 1 .. Len(RunLines) :
                 /\ RunLines[k].status = "failed" <=> RunLines[k].page_index \in failed
                 /\ RunLines[k].status \in {"refined", "skip_refine", "skipped_refine"}
                       <=> RunLines[k].page_index \in images
           /\ result = "returned" =>
                 /\ Len(outcome.failures) = Len(failures)
                 /\ SeqToSet(outcome.failures) = {q + 1 : q \in failed}

\* C33 witness: a run on two pages returned with the first page failed in
\* the refine stage and the second page, refined, as the only image.
C33_Witness ==
    /\ result = "returned"
    /\ page_indices = <<0, 1>>
    /\ outcome.failures = <<1>>
    /\ image_paths = <<EnhancedPath(1)>>
    /\ 0 \notin DOMAIN render_failures

\* The outcomes of page p on the channel, and collected from it.
Sent(p) == {k \in 1 .. Len(channel) : channel[k].page_index = p}
Collected(p) == {k \in 1 .. Len(refine_outcomes) : refine_outcomes[k].page_index = p}

\* C34: in the refine stage every task that ended normally has sent exactly
\* one outcome and no other task has sent any, the channel never holds more
\* outcomes than its capacity, the number of selected pages, so that no send
\* has to wait for the receiver; and under a running event loop whose
\* refiner calls all return or raise, the task group is left, after which
\* the flow has collected exactly one outcome per launched task unless the
\* run was interrupted.
C34_FanInCompletes ==
    /\ [](phase = "refine" =>
            /\ Len(channel) <= Len(page_indices)
            /\ \A p \in Pages :
                  /\ task[p].pc # "send_wait"
                  /\ Cardinality(Sent(p)) = (IF task[p].pc = "done" THEN 1 ELSE 0))
    /\ []((~cfg.skip_refine /\ phase \in {"aggregate", "assemble"}) =>
            /\ channel = <<>>
            /\ \A p \in Pages :
                  Cardinality(Collected(p)) = (IF task[p].pc = "none" THEN 0 ELSE 1))
    /\ (phase = "refine") ~> (phase \in {"aggregate", "done"})

\* C34 witness: both tasks have sent their outcome, the channel is full and
\* the task group has not been left yet.
C34_Witness ==
    /\ phase = "refine"
    /\ ~cancelling
    /\ Len(channel) = 2
    /\ Len(page_indices) = 2
    /\ \A p \in Pages : task[p].pc = "done"

====
